---- MODULE Spec2Model ----
(***************************************************************************)
(* Carbon-credit bridge: the orchestrator (src/src/bridge.ts), the         *)
(* verification engine (src/src/verification.ts) and the event bus         *)
(* (src/src/config.ts), as a state machine.                                *)
(*                                                                         *)
(* Every delivery of a Lock or Burn event starts one execution of          *)
(* handleLockEvent / handleBurnEvent.  An execution is cut at its awaits   *)
(* on real I/O: the on-chain proof query, the verifier requests, the       *)
(* mint / release submission.  Code between two such awaits runs without   *)
(* interruption (JavaScript run-to-completion), synchronous event          *)
(* emission and the handlers it calls included.                            *)
(***************************************************************************)
EXTENDS Integers, Sequences, FiniteSets, TLC

\* ------------------------------------------------------------------------
\* Bounds of the model
\* ------------------------------------------------------------------------
MaxId == 2
MaxEvents == 2
NumVerifiers == 2
MaxTicks == 1
MaxLocks == 2

\* ------------------------------------------------------------------------
\* Program constants
\* ------------------------------------------------------------------------
VerificationTimeoutMs == 3600000
ClockSkewMs == 300000

Ids == 1..MaxId
Verifiers == 1..NumVerifiers
Amounts == {100}

\* ChainType and BridgeStatus
ALGORAND == "algorand"
ETHEREUM == "ethereum"
PENDING == "pending"
LOCKED == "locked"
MINTED == "minted"
BURNED == "burned"
RELEASED == "released"
FAILED == "failed"

\* The clock advances in steps of one timeout window plus a millisecond.
TickMs == VerificationTimeoutMs + 1
StartMs == 2 * TickMs
MaxNow == StartMs + MaxTicks * TickMs

VARIABLES
    now,            \* Date.now()
    minSigs,        \* config.minVerifierSignatures
    transactions,   \* CarbonCreditBridge.transactions (the store)
    handlers,       \* the executions of handleLockEvent / handleBurnEvent
    mintCalls, mintOk,      \* targetChain.mintWrappedCarbonCredits, per id
    relCalls, relOk,        \* releaseOnAlgorand -> releaseCarbonCredits, per id
    compCalls, compOk,      \* handleTimeoutEvent -> releaseCarbonCredits, per id
    validFor,       \* ids for which a verification returned isValid = true
    timeoutDone,    \* ids for which handleTimeoutEvent has run to its end
    mintAfterTimeout, \* ids minted after their timeout was handled
    vresp,          \* one collectVerifierSignatures call: the verifiers' answers
    vresult,        \* and the result verifyTransaction builds from them
    escrowLocal,    \* escrow application: local storage, per account and bridge id
    escrowGlobal,   \* escrow application: global storage, per bridge id
    escrowHeld,     \* carbon credits held by the escrow account
    escrowPaid,     \* asset transfers made by the escrow's inner transactions
    escrowLast,     \* the last application call and whether it was approved
    compResult,     \* per bridge id, the result of its compensating release
    apiLast,        \* the last call of a public operation of the bridge
    statusLast,     \* the last call of getTransactionStatus
    cfg,            \* new CarbonCreditBridge(config): its inputs and outcome
    listeners,      \* bridgeEvents: the listener list of every channel
    busEvents,      \* the events handed to emitBridgeEvent, in order
    deliveries,     \* the listener invocations, in order
    offCalled,      \* channel, handler: off called and not registered since
    busOps,         \* the number of on and off calls so far
    timedOutCall,   \* a call of isTransactionTimedOut: arguments and result
    convertCall,    \* convertAmount there and back: arguments and results
    proofCall,      \* a call of verifyAlgorandTransaction: inputs and result
    hashCall        \* two transactions and their signing payloads

vars == <<now, minSigs, transactions, handlers, mintCalls, mintOk,
          relCalls, relOk, compCalls, compOk, validFor, timeoutDone,
          mintAfterTimeout, vresp, vresult,
          escrowLocal, escrowGlobal, escrowHeld, escrowPaid, escrowLast,
          compResult, apiLast, statusLast, cfg, listeners, busEvents,
          deliveries, offCalled, busOps, timedOutCall, convertCall,
          proofCall, hashCall>>

quorum == <<vresp, vresult>>
escrow == <<escrowLocal, escrowGlobal, escrowHeld, escrowPaid, escrowLast,
            compResult>>
api == <<apiLast, statusLast>>
construction == <<cfg>>
bus == <<listeners, busEvents, deliveries, offCalled, busOps>>
utilsCalls == <<timedOutCall, convertCall, proofCall, hashCall>>
orchestrator == <<now, minSigs, transactions, handlers, mintCalls, mintOk,
                  relCalls, relOk, compCalls, compOk, validFor, timeoutDone,
                  mintAfterTimeout>>

calls == <<mintCalls, mintOk, relCalls, relOk, compCalls, compOk>>

\* ------------------------------------------------------------------------
\* Values
\* ------------------------------------------------------------------------
NoCall == [op |-> "none", id |-> 0, receiver |-> "", amount |-> 0]
NoEntry == [present |-> FALSE, id |-> 0, sourceChain |-> "", status |-> "",
            amount |-> 0, sender |-> "", receiver |-> "",
            hasSourceTx |-> FALSE, hasTargetTx |-> FALSE, timestamp |-> 0]
NoAttempt == [noSignature |-> {}, attested |-> FALSE, signatures |-> <<>>, isValid |-> FALSE,
              evIsValid |-> FALSE, evSignatures |-> <<>>]

\* What a verifier answers to POST /sign
\*   "sig"     success, body {signature: <string>}
\*   "nosig"   success, body without a signature field
\*   "badsig"  success, body whose signature is not a string
\*   "httperr" non-success status
\*   "neterr"  the request fails
\*   "abort"   the request is aborted on its 30 s timeout
RespKinds == {"sig", "nosig", "badsig", "httperr", "neterr", "abort"}

Null == 0

\* ------------------------------------------------------------------------
\* utils.ts
\* ------------------------------------------------------------------------
\* isTransactionTimedOut: "throw" for an invalid argument, else "yes" / "no".
IsTransactionTimedOut_Inclusive(timestamp, timeoutMs, nowMs) ==
    IF timestamp <= 0 THEN "throw"
    ELSE IF timeoutMs <= 0 THEN "throw"
    ELSE IF timestamp > nowMs + ClockSkewMs THEN "no"
    ELSE IF nowMs - timestamp >= timeoutMs THEN "yes" ELSE "no"
IsTransactionTimedOut(timestamp, timeoutMs, nowMs) ==
    IF timestamp <= 0 THEN "throw"
    ELSE IF timeoutMs <= 0 THEN "throw"
    ELSE IF timestamp > nowMs + ClockSkewMs THEN "no"
    ELSE IF nowMs - timestamp > timeoutMs THEN "yes" ELSE "no"

\* The arguments isTransactionTimedOut is applied to, with Date.now(): values
\* around zero, around the timeout and around the allowed clock skew.
TimeoutValues == {-1, 0, 1, 1000, VerificationTimeoutMs}
TimedOutArgs ==
    LET nows == {StartMs, StartMs + TickMs}
        stamps(n) == {-1, 0, 1, n}
                     \cup {n - t + d : t \in {1000, VerificationTimeoutMs},
                                        d \in {-1, 0, 1}}
                     \cup {n + ClockSkewMs + d : d \in {-1, 0, 1}}
    IN {[timestamp |-> ts, timeoutMs |-> t, now |-> n, result |-> "pending"] :
           ts \in UNION {stamps(n) : n \in nows}, t \in TimeoutValues,
           n \in nows}
NoTimedOutCall == [timestamp |-> 0, timeoutMs |-> 0, now |-> 0, result |-> "none"]

\* isTransactionTimedOut is applied to the arguments drawn
ApplyIsTransactionTimedOut ==
    /\ timedOutCall.result = "pending"
    /\ timedOutCall' = [timedOutCall EXCEPT !.result =
           IsTransactionTimedOut(timedOutCall.timestamp,
                                 timedOutCall.timeoutMs, timedOutCall.now)]
    /\ UNCHANGED <<convertCall, proofCall, hashCall>>

\* convertAmount.  A BigNumber is NaN, an infinity, or sign * m * 10^e with m
\* a natural number; bignumber.js is left at its defaults, so a division is
\* rounded half up to DecimalPlaces decimal places and a product is exact.
DecimalPlaces == 20
Dec(k, sgn, m, e) == [k |-> k, s |-> sgn, m |-> m, e |-> e]
DecNaN == Dec("nan", 0, 0, 0)
DecInfinity == Dec("inf", 1, 0, 0)
DecThrown == Dec("throw", 0, 0, 0)

RECURSIVE Pow10(_)
Pow10(n) == IF n <= 0 THEN 1 ELSE 10 * Pow10(n - 1)

\* The same number with the trailing zeros of m moved into the exponent
RECURSIVE Normal(_)
Normal(d) ==
    IF d.k # "fin" THEN d
    ELSE IF d.m = 0 THEN Dec("fin", 1, 0, 0)
    ELSE IF d.m % 10 = 0 THEN Normal(Dec("fin", d.s, d.m \div 10, d.e + 1))
    ELSE d

\* BigNumber.times(10^n), n >= 0
TimesPow10(d, n) == Normal(Dec("fin", d.s, d.m, d.e + n))

\* BigNumber.div(10^n), n >= 0: the quotient, rounded half up (away from
\* zero) at DecimalPlaces decimal places
DivPow10(d, n) ==
    LET e == d.e - n
        drop == (0 - DecimalPlaces) - e
    IN
    IF drop <= 0 THEN Normal(Dec("fin", d.s, d.m, e))
    ELSE IF drop > 9 THEN Dec("fin", 1, 0, 0)
    ELSE Normal(Dec("fin", d.s,
                    (d.m + (Pow10(drop) \div 2)) \div Pow10(drop),
                    0 - DecimalPlaces))

Abs(n) == IF n < 0 THEN 0 - n ELSE n

\* convertAmount(amount, fromDecimals, toDecimals): the BigNumber returned, or
\* DecThrown
ConvertAmount_AlwaysTimes(amount, fromDecimals, toDecimals) ==
    IF fromDecimals < 0 \/ toDecimals < 0 THEN DecThrown
    ELSE IF amount.k # "fin" THEN DecThrown
    ELSE IF fromDecimals = toDecimals THEN Normal(amount)
    ELSE TimesPow10(amount, Abs(toDecimals - fromDecimals))
ConvertAmount(amount, fromDecimals, toDecimals) ==
    IF fromDecimals < 0 \/ toDecimals < 0 THEN DecThrown
    ELSE IF amount.k # "fin" THEN DecThrown
    ELSE IF fromDecimals = toDecimals THEN Normal(amount)
    ELSE IF toDecimals - fromDecimals > 0
         THEN TimesPow10(amount, Abs(toDecimals - fromDecimals))
         ELSE DivPow10(amount, Abs(toDecimals - fromDecimals))

\* The arguments convertAmount is applied to: whole and fractional amounts,
\* zero, negative, NaN and Infinity; decimals of the two chains and beyond.
ConvertAmounts ==
    {Dec("fin", 1, 0, 0), Dec("fin", 1, 1, 0), Dec("fin", -1, 1, 0),
     Dec("fin", 1, 100, 0), Dec("fin", 1, 5, 12), Dec("fin", 1, 123, 6),
     Dec("fin", 1, 15, -1), Dec("fin", 1, 1, -18), Dec("fin", 1, 5, -20),
     DecNaN, DecInfinity}
ConvertDecimals == {-1, 0, 6, 18, 21}
ConvertArgs ==
    {[amount |-> a, from |-> f, to |-> t, stage |-> "drawn",
      there |-> DecNaN, back |-> DecNaN] :
        a \in ConvertAmounts, f \in ConvertDecimals, t \in ConvertDecimals}
NoConvertCall == [amount |-> DecNaN, from |-> 0, to |-> 0, stage |-> "none",
                  there |-> DecNaN, back |-> DecNaN]

\* convertAmount(amount, from, to)
ApplyConvertAmount ==
    /\ convertCall.stage = "drawn"
    /\ convertCall' = [convertCall EXCEPT
           !.stage = "there",
           !.there = ConvertAmount(convertCall.amount, convertCall.from,
                                   convertCall.to)]
    /\ UNCHANGED <<timedOutCall, proofCall, hashCall>>

\* convertAmount(result, to, from), when the first call returned
ApplyConvertAmountBack ==
    /\ convertCall.stage = "there"
    /\ convertCall.there.k = "fin"
    /\ convertCall' = [convertCall EXCEPT
           !.stage = "back",
           !.back = ConvertAmount(convertCall.there, convertCall.to,
                                  convertCall.from)]
    /\ UNCHANGED <<timedOutCall, proofCall, hashCall>>

\* Number.prototype.toString for a natural number
RECURSIVE NumberToString(_)
NumberToString(n) ==
    LET digit(d) == CASE d = 0 -> "0" [] d = 1 -> "1" [] d = 2 -> "2"
                      [] d = 3 -> "3" [] d = 4 -> "4" [] d = 5 -> "5"
                      [] d = 6 -> "6" [] d = 7 -> "7" [] d = 8 -> "8"
                      [] OTHER -> "9"
    IN  IF n < 10 THEN digit(n)
        ELSE NumberToString(n \div 10) \o digit(n % 10)

\* The digest of a byte sequence.  SHA-256 is taken to be free of
\* collisions: the digest stands for the bytes that were hashed.
Sha256(bytes) == <<"sha256", bytes>>

CreateTransactionHash_NoNonce(sourceChain, targetChain, sender, receiver, amount, nonce) ==
    Sha256(sourceChain \o targetChain \o sender \o receiver \o amount)

\* createTransactionHash: six update calls feed the hash with the fields
\* one after the other.
CreateTransactionHash(sourceChain, targetChain, sender, receiver, amount, nonce) ==
    Sha256(sourceChain \o targetChain \o sender \o receiver \o amount
               \o NumberToString(nonce))

\* ------------------------------------------------------------------------
\* verification.ts
\* ------------------------------------------------------------------------
\* The body of a success response carries a string `signature` field.
WellFormed(resp) == resp = "sig"

RequestVerifierSignature_AnyBody(v, resp) ==
    IF resp \in {"neterr", "abort", "httperr"} THEN Null ELSE v

\* requestVerifierSignature: the signature of verifier v, or Null.
\* A signature is named by the verifier that produced it.
RequestVerifierSignature(v, resp) ==
    IF resp \in {"neterr", "abort"} THEN Null   \* catch, lines 463-473
    ELSE IF resp = "httperr" THEN Null          \* !response.ok
    ELSE IF WellFormed(resp) THEN Null          \* lines 452-455
    ELSE IF WellFormed(resp) THEN v             \* lines 458-460
    ELSE Null

\* At least minVerifierSignatures verifiers answered with a well-formed
\* signature (what the verifier fleet did, whatever the engine makes of it).
Attested(resp) ==
    Cardinality({v \in Verifiers : WellFormed(resp[v])}) >= minSigs

\* collectVerifierSignatures: the non-null results, in verifier order.
CollectVerifierSignatures(resp) ==
    LET results == [v \in Verifiers |-> RequestVerifierSignature(v, resp[v])]
    IN  SelectSeq(results, LAMBDA sig : sig # Null)

HasEnoughSignatures_Strict(signatures) == Len(signatures) > minSigs

\* verifyTransaction, lines 68-69
HasEnoughSignatures(signatures) == Len(signatures) >= minSigs

\* verifyTransaction up to its first await on I/O:
\*   "threw"   isTransactionTimedOut threw, caught at line 83
\*   "timeout" timed out: TIMEOUT emitted, invalid result
\*   "noproof" no sourceTransactionId: the proof check returns false at once
\*   "query"   the proof check awaits the chain
VerifyTransactionSync_NoTimeout(tx) ==
    LET t == IsTransactionTimedOut(tx.timestamp, VerificationTimeoutMs, now)
    IN  IF t = "throw" THEN "threw"
        ELSE IF ~tx.hasSourceTx THEN "noproof"
        ELSE "query"

VerifyTransactionSync(tx) ==
    LET t == IsTransactionTimedOut(tx.timestamp, VerificationTimeoutMs, now)
    IN  IF t = "throw" THEN "threw"
        ELSE IF t = "yes" THEN "timeout"
        ELSE IF ~tx.hasSourceTx THEN "noproof"
        ELSE "query"

\* verifyAlgorandTransaction(transaction, config), with the transaction the
\* indexer returns for transaction.sourceTransactionId.  A call is a record:
\*   hasSourceTx, amountTenths     the bridge transaction: sourceTransactionId
\*                                 is set; its amount, in tenths of a unit
\*   tokenId, escrowAddress, decimals, escrowAppId, carbonAssetId
\*                                 config.algorand ("undefined" when unset)
\*   found, confirmedRound, txType the indexer's answer
\*   assetId, receiver, amount, note   its asset-transfer fields; note is
\*       "none", "match" (JSON naming the transaction's receiver and target
\*       chain), "receiver" / "chain" (JSON naming another one), "text"
\*   appId, method, argCount, argAmountMatches   its application-call fields;
\*       argAmountMatches says whether the amount the call carries is the
\*       expected one
EscrowAddress == "ESCROW"
EscrowAppId == "11"
CarbonAssetId == "7"

\* config.algorand.decimals ?? 0
Decimals(c) == IF c.decimals = "undefined" THEN 0 ELSE 1

\* Math.floor(Number(transaction.amount ?? 0) * Math.pow(10, decimals))
ExpectedAmount(c) == (c.amountTenths * Pow10(Decimals(c))) \div 10

\* The note check of lines 165-180: a note that is not JSON makes
\* JSON.parse throw.
NoteAccepted(note) == note \in {"none", "match"}

\* The asset-transfer branch, lines 141-184
AxferAccepted(c) ==
    /\ c.assetId = c.tokenId
    /\ c.receiver = c.escrowAddress
    /\ c.amount = ExpectedAmount(c)
    /\ NoteAccepted(c.note)

\* The application-call branch, lines 186-214
ApplAccepted(c) ==
    /\ c.appId = c.escrowAppId
    /\ c.argCount >= 1 /\ c.method = "bridge"
    /\ c.argCount >= 3

VerifyAlgorandTransaction(c) ==
    IF ~c.hasSourceTx THEN FALSE
    ELSE IF ~c.found THEN FALSE
    ELSE IF c.confirmedRound \in {"undefined", "0"} THEN FALSE
    ELSE IF c.txType = "axfer" THEN AxferAccepted(c)
    ELSE IF c.txType = "appl" THEN ApplAccepted(c)
    ELSE FALSE

\* lockCarbonCredits, lines 70-95: the two transactions of the lock group,
\* as the indexer returns them once confirmed with the expected amount.
LockGroupAxfer(c) ==
    [c EXCEPT !.txType = "axfer", !.assetId = c.carbonAssetId,
              !.receiver = EscrowAddress, !.amount = ExpectedAmount(c),
              !.note = "text"]
LockGroupAppl(c) ==
    [c EXCEPT !.txType = "appl", !.appId = c.escrowAppId,
              !.method = "lock", !.argCount = 3]

\* A transaction every check accepts, for the given bridge transaction and
\* configuration.
ProofBase ==
    {[hasSourceTx |-> TRUE, amountTenths |-> a,
      tokenId |-> k.tokenId, escrowAddress |-> k.escrowAddress,
      decimals |-> d, escrowAppId |-> EscrowAppId,
      carbonAssetId |-> CarbonAssetId,
      found |-> TRUE, confirmedRound |-> "5", txType |-> t,
      assetId |-> CarbonAssetId, receiver |-> EscrowAddress,
      amount |-> (a * (IF d = "undefined" THEN 1 ELSE 10)) \div 10,
      note |-> n, appId |-> EscrowAppId, method |-> "bridge",
      argCount |-> 3, argAmountMatches |-> TRUE, result |-> "pending"] :
        a \in {1000, 15}, d \in {"undefined", "1"},
        t \in {"axfer", "appl", "pay"}, n \in {"none", "match"},
        k \in {[tokenId |-> CarbonAssetId, escrowAddress |-> EscrowAddress],
               [tokenId |-> "undefined", escrowAddress |-> "undefined"]}}

\* The same with one field changed.
ProofVariants(c) ==
    {c, LockGroupAxfer(c), LockGroupAppl(c),
     [c EXCEPT !.hasSourceTx = FALSE],
     [c EXCEPT !.found = FALSE],
     [c EXCEPT !.confirmedRound = "undefined"],
     [c EXCEPT !.confirmedRound = "0"],
     [c EXCEPT !.assetId = "8"],
     [c EXCEPT !.receiver = "OTHER"],
     [c EXCEPT !.amount = @ + 1],
     [c EXCEPT !.note = "receiver"],
     [c EXCEPT !.note = "chain"],
     [c EXCEPT !.note = "text"],
     [c EXCEPT !.appId = "12"],
     [c EXCEPT !.method = "lock"],
     [c EXCEPT !.argCount = 1],
     [c EXCEPT !.argCount = 0],
     [c EXCEPT !.argAmountMatches = FALSE]}

ProofArgs == UNION {ProofVariants(c) : c \in ProofBase}
NoProofCall == [result |-> "none"]

\* verifyAlgorandTransaction is applied to the inputs drawn
ApplyVerifyAlgorandTransaction ==
    /\ proofCall.result = "pending"
    /\ proofCall' = [proofCall EXCEPT !.result =
           IF VerifyAlgorandTransaction(proofCall) THEN "pass" ELSE "fail"]
    /\ UNCHANGED <<timedOutCall, convertCall, hashCall>>

\* The payload computed by collectVerifierSignatures (lines 379-386),
\* signTransaction (507-514) and verifySignature (581-588).  amount is a
\* BigNumber holding a natural number; its toString is the decimal numeral.
CollectPayload(tx) ==
    CreateTransactionHash(tx.sourceChain, tx.targetChain, tx.sender,
                          tx.receiver, NumberToString(tx.amount), tx.nonce)
SignPayload(tx) ==
    CreateTransactionHash(tx.sourceChain, tx.targetChain, tx.sender,
                          tx.receiver, NumberToString(tx.amount), tx.nonce)
VerifyPayload(tx) ==
    CreateTransactionHash(tx.sourceChain, tx.targetChain, tx.sender,
                          tx.receiver, NumberToString(tx.amount), tx.nonce)

Payloads(tx) == [collect |-> CollectPayload(tx), sign |-> SignPayload(tx),
                 verify |-> VerifyPayload(tx)]

\* The six fields of the transactions drawn.
HashTxs ==
    {[sourceChain |-> d[1], targetChain |-> d[2], sender |-> sender,
      receiver |-> receiver, amount |-> amount, nonce |-> nonce] :
        d \in {<<ALGORAND, ETHEREUM>>, <<ETHEREUM, ALGORAND>>},
        sender \in {"A", "X"}, receiver \in {"B", "D"},
        amount \in {1, 12}, nonce \in {3, 23}}
HashArgs == {[a |-> a, b |-> b, stage |-> "drawn"] : a \in HashTxs, b \in HashTxs}
NoHashCall == [stage |-> "none"]

\* The payloads of both transactions are computed in the three places.
ApplyCreateTransactionHash ==
    /\ hashCall.stage = "drawn"
    /\ hashCall' = [a |-> hashCall.a, b |-> hashCall.b, stage |-> "done",
                    pa |-> Payloads(hashCall.a), pb |-> Payloads(hashCall.b)]
    /\ UNCHANGED <<timedOutCall, convertCall, proofCall>>

\* ------------------------------------------------------------------------
\* bridge.ts
\* ------------------------------------------------------------------------
\* handleTimeoutEvent, lines 176-179
TimeoutReleaseNeeded(tx) == tx.sourceChain = ALGORAND /\ tx.status = LOCKED

TimeoutReleaseCall_ToReceiver(tx) ==
    [op |-> "release", id |-> tx.id, receiver |-> tx.receiver, amount |-> tx.amount]

\* handleTimeoutEvent, lines 181-186: the compensating release
TimeoutReleaseCall(tx) ==
    [op |-> "release", id |-> tx.id, receiver |-> tx.sender, amount |-> tx.amount]

\* mintOnTargetChain, lines 207-213
MintCall_OtherId(tx) ==
    [op |-> "mint", id |-> (tx.id % MaxId) + 1, receiver |-> tx.receiver,
     amount |-> tx.amount]
MintCall(tx) ==
    [op |-> "mint", id |-> tx.id, receiver |-> tx.receiver, amount |-> tx.amount]

\* mintWrappedCarbonCredits: what bridgeContract.mint is called with.  The
\* signature list is the empty list the adapter declares; hasAlgorandTxId
\* says whether sourceTransactionId is a non-empty string.
MintSignatures == <<>>
MintSubmission(call, tx) ==
    [receiver |-> call.receiver, amount |-> call.amount,
     bridgeId |-> call.id, hasAlgorandTxId |-> tx.hasSourceTx,
     signatures |-> MintSignatures]

\* releaseOnAlgorand, lines 241-246
ReleaseCall(tx) ==
    [op |-> "release", id |-> tx.id, receiver |-> tx.receiver, amount |-> tx.amount]

\* handleVerificationEvent: {...tx, ...event.transaction}
MergeVerification(stored, evTx) ==
    IF stored.present
    THEN [evTx EXCEPT !.hasSourceTx = evTx.hasSourceTx \/ stored.hasSourceTx,
                      !.hasTargetTx = stored.hasTargetTx]
    ELSE stored

\* mintOnTargetChain / releaseOnAlgorand: {...transaction, status, targetTransactionId}
Completed_Rekeyed(tx, status) ==
    [tx EXCEPT !.status = status, !.hasTargetTx = TRUE,
               !.id = (tx.id % MaxId) + 1]
Completed(tx, status) == [tx EXCEPT !.status = status, !.hasTargetTx = TRUE]

\* ------------------------------------------------------------------------
\* Handler executions
\* ------------------------------------------------------------------------
\* pc:  "proof"   awaiting the on-chain proof query
\*      "sigs"    awaiting the verifier requests (Promise.all)
\*      "verdict" verifyTransaction has returned from the quorum stage
\*      "mint"    awaiting mintWrappedCarbonCredits
\*      "release" awaiting releaseCarbonCredits (burn side)
\*      "done"    the handler has returned
\* event, at: the transaction as the event carried it, and the time of delivery
\* tx:  the transaction object (handleTimeoutEvent assigns its status)
\* tpc: the handleTimeoutEvent execution started by this handler's TIMEOUT
\*      event: "none", "release" (awaiting the compensating release), "done"
\* result, tresult: what the mint / release, and the compensating release,
\*      returned: "none", "ok", "failed"
NewHandler(kind, tx) ==
    [kind |-> kind, event |-> tx, at |-> now, tx |-> tx, pc |-> "done", tpc |-> "none",
     stage |-> "none", verdict |-> "none",
     errorEvent |-> FALSE, timeoutEvent |-> FALSE, verificationEvent |-> FALSE,
     call |-> NoCall, tcall |-> NoCall, result |-> "none", tresult |-> "none",
     attempt |-> NoAttempt]

Bump(f, id) == [f EXCEPT ![id] = @ + 1]

VerificationPassed_Unchecked(verification) == TRUE

\* handleLockEvent line 96, handleBurnEvent line 131: if (verification.isValid)
VerificationPassed(verification) == verification.isValid

\* handleLockEvent / handleBurnEvent once verifyTransaction has returned
\* invalid: the ERROR event of lines 100-103 / 135-138.
Rejected_Continue(hr, stage) ==
    IF stage = "proof" THEN [hr EXCEPT !.pc = "sigs", !.stage = stage]
    ELSE [hr EXCEPT !.pc = "done", !.stage = stage, !.verdict = "invalid",
                    !.errorEvent = TRUE]
Rejected(hr, stage) ==
    [hr EXCEPT !.pc = "done", !.stage = stage, !.verdict = "invalid",
               !.errorEvent = TRUE]

\* The handler with its store write moved behind the first await
Deliver_StoreAfterAwait(kind, tx) ==
    LET sync == VerifyTransactionSync(tx)
        hr   == NewHandler(kind, tx)
        id   == tx.id
    IN
    /\ Len(handlers) < MaxEvents
    /\ IF sync = "timeout"
       THEN IF TimeoutReleaseNeeded(tx)
            THEN /\ handlers' = Append(handlers,
                       [Rejected(hr, "timeout") EXCEPT
                            !.timeoutEvent = TRUE, !.tpc = "release",
                            !.tcall = TimeoutReleaseCall(tx)])
                 /\ transactions' = [transactions EXCEPT ![id] = tx]
                 /\ compCalls' = Bump(compCalls, id)
                 /\ UNCHANGED timeoutDone
            ELSE /\ handlers' = Append(handlers,
                       [Rejected(hr, "timeout") EXCEPT
                            !.timeoutEvent = TRUE, !.tpc = "done",
                            !.tx = [tx EXCEPT !.status = FAILED]])
                 /\ transactions' = [transactions EXCEPT
                                        ![id] = [tx EXCEPT !.status = FAILED]]
                 /\ timeoutDone' = timeoutDone \cup {id}
                 /\ UNCHANGED compCalls
       ELSE /\ UNCHANGED transactions
            /\ handlers' = Append(handlers,
                   IF sync = "query" THEN [hr EXCEPT !.pc = "proof"]
                   ELSE Rejected(hr, sync))
            /\ UNCHANGED <<compCalls, timeoutDone>>
    /\ UNCHANGED <<now, minSigs, mintCalls, mintOk, relCalls, relOk,
                   compOk, validFor, mintAfterTimeout>>

\* The delivery of a Lock or Burn event: handleLockEvent / handleBurnEvent
\* up to the first await on I/O, with verifyTransaction's timeout check, the
\* TIMEOUT event it emits and handleTimeoutEvent up to its own first await.
Deliver(kind, tx) ==
    LET sync == VerifyTransactionSync(tx)
        hr   == NewHandler(kind, tx)
        id   == tx.id
    IN
    /\ Len(handlers) < MaxEvents
    /\ IF sync = "timeout"
       THEN IF TimeoutReleaseNeeded(tx)
            THEN /\ handlers' = Append(handlers,
                       [Rejected(hr, "timeout") EXCEPT
                            !.timeoutEvent = TRUE, !.tpc = "release",
                            !.tcall = TimeoutReleaseCall(tx)])
                 /\ transactions' = [transactions EXCEPT ![id] = tx]
                 /\ compCalls' = Bump(compCalls, id)
                 /\ UNCHANGED timeoutDone
            ELSE /\ handlers' = Append(handlers,
                       [Rejected(hr, "timeout") EXCEPT
                            !.timeoutEvent = TRUE, !.tpc = "done",
                            !.tx = [tx EXCEPT !.status = FAILED]])
                 /\ transactions' = [transactions EXCEPT
                                        ![id] = [tx EXCEPT !.status = FAILED]]
                 /\ timeoutDone' = timeoutDone \cup {id}
                 /\ UNCHANGED compCalls
       ELSE /\ transactions' = [transactions EXCEPT ![id] = tx]
            /\ handlers' = Append(handlers,
                   IF sync = "query" THEN [hr EXCEPT !.pc = "proof"]
                   ELSE Rejected(hr, sync))
            /\ UNCHANGED <<compCalls, timeoutDone>>
    /\ UNCHANGED <<now, minSigs, mintCalls, mintOk, relCalls, relOk,
                   compOk, validFor, mintAfterTimeout>>

\* What the chain adapters and watchers put on the bus.
Timestamps == {now, now - TickMs}

LockTx(id, status, hasSourceTx, timestamp, amount) ==
    [present |-> TRUE, id |-> id, sourceChain |-> ALGORAND, status |-> status,
     amount |-> amount, sender |-> "A", receiver |-> "B",
     hasSourceTx |-> hasSourceTx, hasTargetTx |-> FALSE, timestamp |-> timestamp]

BurnTx(id, status, hasSourceTx, timestamp, amount) ==
    [present |-> TRUE, id |-> id, sourceChain |-> ETHEREUM, status |-> status,
     amount |-> amount, sender |-> "C", receiver |-> "D",
     hasSourceTx |-> hasSourceTx, hasTargetTx |-> FALSE, timestamp |-> timestamp]

\* Bridge ids are opaque: the n-th distinct id on the bus is called n.
KnownIds == {handlers[h].event.id : h \in 1..Len(handlers)}
EventIds == {id \in Ids : id <= Cardinality(KnownIds) + 1}

\* A LOCK event reaches handleLockEvent.
HandleLockEvent ==
    \E id \in EventIds, status \in {PENDING, LOCKED}, hasSourceTx \in BOOLEAN,
       timestamp \in Timestamps, amount \in Amounts :
        /\ Deliver("lock", LockTx(id, status, hasSourceTx, timestamp, amount))
        /\ UNCHANGED <<quorum, escrow, api, construction, bus, utilsCalls>>

\* A BURN event reaches handleBurnEvent.
HandleBurnEvent ==
    \E id \in EventIds, status \in {PENDING, BURNED}, hasSourceTx \in BOOLEAN,
       timestamp \in Timestamps, amount \in Amounts :
        /\ Deliver("burn", BurnTx(id, status, hasSourceTx, timestamp, amount))
        /\ UNCHANGED <<quorum, escrow, api, construction, bus, utilsCalls>>

\* A VERIFICATION event put on the bus by another party reaches
\* handleVerificationEvent, which reads nothing but event.transaction: the
\* stored entry, if there is one, is overwritten field by field.
HandleVerificationEvent ==
    \E id \in EventIds, lock \in BOOLEAN, early \in BOOLEAN,
       hasSourceTx \in BOOLEAN, amount \in Amounts :
        LET tx == IF lock
                  THEN LockTx(id, IF early THEN PENDING ELSE LOCKED,
                              hasSourceTx, now, amount)
                  ELSE BurnTx(id, IF early THEN PENDING ELSE BURNED,
                              hasSourceTx, now, amount)
        IN
        /\ Len(handlers) < MaxEvents
        /\ handlers' = Append(handlers, NewHandler("verification", tx))
        /\ transactions' = [transactions EXCEPT
                               ![id] = MergeVerification(@, tx)]
        /\ UNCHANGED <<now, minSigs, calls, validFor, timeoutDone,
                       mintAfterTimeout>>
        /\ UNCHANGED <<quorum, escrow, api, construction, bus, utilsCalls>>

\* A TIMEOUT event put on the bus by another party reaches
\* handleTimeoutEvent: up to its await on the compensating release, or to
\* its end when no release is due.
HandleTimeoutEvent ==
    \E id \in EventIds, lock \in BOOLEAN, early \in BOOLEAN,
       hasSourceTx \in BOOLEAN, amount \in Amounts :
        LET tx == IF lock
                  THEN LockTx(id, IF early THEN PENDING ELSE LOCKED,
                              hasSourceTx, now - TickMs, amount)
                  ELSE BurnTx(id, IF early THEN PENDING ELSE BURNED,
                              hasSourceTx, now - TickMs, amount)
            hr == NewHandler("timeout", tx)
        IN
        /\ Len(handlers) < MaxEvents
        /\ IF TimeoutReleaseNeeded(tx)
           THEN /\ handlers' = Append(handlers,
                      [hr EXCEPT !.tpc = "release",
                                 !.tcall = TimeoutReleaseCall(tx)])
                /\ compCalls' = Bump(compCalls, id)
                /\ UNCHANGED <<transactions, timeoutDone>>
           ELSE /\ handlers' = Append(handlers,
                      [hr EXCEPT !.tpc = "done",
                                 !.tx = [tx EXCEPT !.status = FAILED]])
                /\ transactions' = [transactions EXCEPT
                                       ![id] = [tx EXCEPT !.status = FAILED]]
                /\ timeoutDone' = timeoutDone \cup {id}
                /\ UNCHANGED compCalls
        /\ UNCHANGED <<now, minSigs, mintCalls, mintOk, relCalls, relOk,
                       compOk, validFor, mintAfterTimeout>>
        /\ UNCHANGED <<quorum, escrow, api, construction, bus, utilsCalls>>

\* verifyAlgorandTransaction / verifyTargetChainTransaction returns.
ProofCheckDone(h, ok) ==
    /\ handlers[h].pc = "proof"
    /\ handlers' = [handlers EXCEPT ![h] =
           IF ok THEN [@ EXCEPT !.pc = "sigs"] ELSE Rejected(@, "proof")]
    /\ UNCHANGED <<now, minSigs, transactions, calls, validFor,
                   timeoutDone, mintAfterTimeout>>
    /\ UNCHANGED <<quorum, escrow, api, construction, bus, utilsCalls>>

\* Every verifier request has settled: collectVerifierSignatures returns,
\* verifyTransaction emits VERIFICATION (handleVerificationEvent runs inside
\* the emission) and returns its result.
SignaturesCollected(h, resp) ==
    LET hr         == handlers[h]
        id         == hr.tx.id
        signatures == CollectVerifierSignatures(resp)
        isValid    == HasEnoughSignatures(signatures)
    IN
    /\ hr.pc = "sigs"
    /\ handlers' = [handlers EXCEPT ![h] =
           [@ EXCEPT !.pc = "verdict", !.stage = "quorum",
                     !.verificationEvent = TRUE,
                     !.attempt = [noSignature |->
                                      {v \in Verifiers : resp[v] = "nosig"},
                                  attested |-> Attested(resp),
                                  signatures |-> signatures,
                                  isValid |-> isValid, evIsValid |-> isValid,
                                  evSignatures |-> signatures]]]
    /\ transactions' = [transactions EXCEPT
                           ![id] = MergeVerification(@, hr.tx)]
    /\ UNCHANGED <<now, minSigs, calls, validFor, timeoutDone, mintAfterTimeout>>
    /\ UNCHANGED <<quorum, escrow, api, construction, bus, utilsCalls>>

\* handleLockEvent / handleBurnEvent resumes with the verification result:
\* it mints (Lock) or releases (Burn) when isValid, else emits ERROR.
VerificationReturned(h) ==
    LET hr      == handlers[h]
        tx      == hr.tx
        id      == tx.id
        verdict == IF hr.attempt.isValid THEN "valid" ELSE "invalid"
    IN
    /\ hr.pc = "verdict"
    /\ validFor' = IF hr.attempt.isValid THEN validFor \cup {id} ELSE validFor
    /\ IF VerificationPassed(hr.attempt)
       THEN IF hr.kind = "lock"
            THEN /\ handlers' = [handlers EXCEPT ![h] =
                        [@ EXCEPT !.pc = "mint", !.verdict = verdict,
                                  !.call = MintCall(tx)]]
                 /\ mintCalls' = Bump(mintCalls, id)
                 /\ mintAfterTimeout' =
                        IF id \in timeoutDone
                        THEN mintAfterTimeout \cup {id} ELSE mintAfterTimeout
                 /\ UNCHANGED relCalls
            ELSE /\ handlers' = [handlers EXCEPT ![h] =
                        [@ EXCEPT !.pc = "release", !.verdict = verdict,
                                  !.call = ReleaseCall(tx)]]
                 /\ relCalls' = Bump(relCalls, id)
                 /\ UNCHANGED <<mintCalls, mintAfterTimeout>>
       ELSE /\ handlers' = [handlers EXCEPT ![h] =
                   [@ EXCEPT !.pc = "done", !.verdict = verdict,
                             !.errorEvent = TRUE]]
            /\ UNCHANGED <<mintCalls, relCalls, mintAfterTimeout>>
    /\ UNCHANGED <<now, minSigs, transactions, mintOk, relOk, compCalls,
                   compOk, timeoutDone>>
    /\ UNCHANGED <<quorum, escrow, api, construction, bus, utilsCalls>>

\* mintWrappedCarbonCredits returns: mintOnTargetChain stores MINTED, or
\* throws and handleLockEvent emits ERROR.
MintDone(h, success) ==
    LET hr == handlers[h]
        id == hr.tx.id
    IN
    /\ hr.pc = "mint"
    /\ IF success
       THEN /\ transactions' = [transactions EXCEPT
                                   ![id] = Completed(hr.tx, MINTED)]
            /\ mintOk' = Bump(mintOk, id)
            /\ handlers' = [handlers EXCEPT ![h] =
                   [@ EXCEPT !.pc = "done", !.result = "ok"]]
       ELSE /\ handlers' = [handlers EXCEPT ![h] =
                   [@ EXCEPT !.pc = "done", !.result = "failed",
                             !.errorEvent = TRUE]]
            /\ UNCHANGED <<transactions, mintOk>>
    /\ UNCHANGED <<now, minSigs, mintCalls, relCalls, relOk,
                   compCalls, compOk, validFor, timeoutDone, mintAfterTimeout>>
    /\ UNCHANGED <<quorum, escrow, api, construction, bus, utilsCalls>>

\* releaseCarbonCredits returns to releaseOnAlgorand: RELEASED is stored, or
\* it throws and handleBurnEvent emits ERROR.
ReleaseDone(h, success) ==
    LET hr == handlers[h]
        id == hr.tx.id
    IN
    /\ hr.pc = "release"
    /\ IF success
       THEN /\ transactions' = [transactions EXCEPT
                                   ![id] = Completed(hr.tx, RELEASED)]
            /\ relOk' = Bump(relOk, id)
            /\ handlers' = [handlers EXCEPT ![h] =
                   [@ EXCEPT !.pc = "done", !.result = "ok"]]
       ELSE /\ handlers' = [handlers EXCEPT ![h] =
                   [@ EXCEPT !.pc = "done", !.result = "failed",
                             !.errorEvent = TRUE]]
            /\ UNCHANGED <<transactions, relOk>>
    /\ UNCHANGED <<now, minSigs, mintCalls, mintOk, relCalls,
                   compCalls, compOk, validFor, timeoutDone, mintAfterTimeout>>
    /\ UNCHANGED <<quorum, escrow, api, construction, bus, utilsCalls>>

\* The compensating release returns to handleTimeoutEvent, whatever its
\* result: the transaction is marked FAILED and stored (lines 190-191).
TimeoutReleaseDone(h, success) ==
    LET hr     == handlers[h]
        id     == hr.tx.id
        failed == [hr.tx EXCEPT !.status = FAILED]
    IN
    /\ hr.tpc = "release"
    /\ handlers' = [handlers EXCEPT ![h] =
           [@ EXCEPT !.tpc = "done", !.tx = failed,
                     !.tresult = IF success THEN "ok" ELSE "failed"]]
    /\ transactions' = [transactions EXCEPT ![id] = failed]
    /\ compOk' = IF success THEN Bump(compOk, id) ELSE compOk
    /\ timeoutDone' = timeoutDone \cup {id}
    /\ UNCHANGED <<now, minSigs, mintCalls, mintOk, relCalls, relOk,
                   compCalls, validFor, mintAfterTimeout>>
    /\ UNCHANGED <<quorum, escrow, api, construction, bus, utilsCalls>>

\* Time passes.
Tick ==
    /\ now < MaxNow
    /\ now' = now + TickMs
    /\ UNCHANGED <<minSigs, transactions, handlers, calls, validFor,
                   timeoutDone, mintAfterTimeout>>
    /\ UNCHANGED <<quorum, escrow, api, construction, bus, utilsCalls>>

\* ------------------------------------------------------------------------
\* The public operations of the bridge: bridgeToTargetChain, bridgeToAlgorand
\* ------------------------------------------------------------------------
\* JavaScript values passed as `amount`: undefined, a number, a string or a
\* BigNumber.  k is "fin", "nan" or "inf"; s the sign (a BigNumber zero has
\* sign 1, NaN has none); m the magnitude.
JsValue(t, k, s, m, text) == [t |-> t, k |-> k, s |-> s, m |-> m, text |-> text]
JsUndefined == JsValue("undefined", "nan", 0, 0, "")
JsNumber(k, s, m) == JsValue("number", k, s, m, "")
JsString(text) == JsValue("string", "nan", 0, 0, text)
JsBigNumber(k, s, m) == JsValue("bignumber", k, s, m, "")

BigNaN == [k |-> "nan", s |-> 0, m |-> 0]
BigFinite(s, m) == [k |-> "fin", s |-> s, m |-> m]
BigInfinity(s) == [k |-> "inf", s |-> s, m |-> 0]

AmountInputs ==
    {JsUndefined,
     JsNumber("fin", 1, 0), JsNumber("fin", 1, 100), JsNumber("fin", -1, 100),
     JsNumber("nan", 0, 0), JsNumber("inf", 1, 0),
     JsString(""), JsString("0"), JsString("100"), JsString("-100"),
     JsString("abc"),
     JsBigNumber("fin", 1, 0), JsBigNumber("fin", 1, 100)}

\* !amount
Falsy(v) ==
    \/ v.t = "undefined"
    \/ v.t = "number" /\ (v.k = "nan" \/ (v.k = "fin" /\ v.m = 0))
    \/ v.t = "string" /\ v.text = ""

\* new BigNumber(text)
ParseBigNumber(text) ==
    CASE text = "0" -> BigFinite(1, 0)
      [] text = "100" -> BigFinite(1, 100)
      [] text = "-100" -> BigFinite(-1, 100)
      [] text = "Infinity" -> BigInfinity(1)
      [] OTHER -> BigNaN

\* new BigNumber(amount)
ToBigNumber(v) ==
    IF v.t = "undefined" THEN BigNaN
    ELSE IF v.t = "string" THEN ParseBigNumber(v.text)
    ELSE [k |-> v.k, s |-> v.s, m |-> v.m]

\* BigNumber.isNaN, BigNumber.isPositive (the sign is positive)
IsNaN(bn) == bn.k = "nan"
IsPositive(bn) == bn.s > 0

\* BigNumber.toString
BigToString(bn) ==
    CASE bn.k = "nan" -> "NaN"
      [] bn.k = "inf" -> IF bn.s > 0 THEN "Infinity" ELSE "-Infinity"
      [] bn.k = "fin" /\ bn.m = 0 -> "0"
      [] bn.k = "fin" /\ bn.s > 0 -> "100"
      [] OTHER -> "-100"

\* Addresses.  An Algorand address is returned as given when valid; an
\* Ethereum address is returned in checksum form (written in capitals here).
AlgorandAddresses == {"A", "D"}
Checksum(address) ==
    CASE address \in {"b", "B"} -> "B"
      [] address \in {"c", "C"} -> "C"
      [] OTHER -> "throw"

\* formatAddress: the formatted address, or "throw"
FormatAddress(address, chainType) ==
    IF chainType = ALGORAND
    THEN IF address \in AlgorandAddresses THEN address ELSE "throw"
    ELSE IF chainType = ETHEREUM THEN Checksum(address)
    ELSE "throw"

\* Carbon-credit metadata: absent, or an object with the four fields
\* validateCarbonMetadata reads.  vintage is a JavaScript value.
NoMetadata == [present |-> FALSE, projectId |-> "", vintage |-> JsUndefined,
               standard |-> "", serialNumber |-> ""]
Metadata(projectId, vintage, standard, serialNumber) ==
    [present |-> TRUE, projectId |-> projectId, vintage |-> vintage,
     standard |-> standard, serialNumber |-> serialNumber]
GoodMetadata == Metadata("P", JsNumber("fin", 1, 2020), "Verra", "S")
MetadataInputs ==
    {NoMetadata, GoodMetadata,
     [GoodMetadata EXCEPT !.projectId = ""],
     [GoodMetadata EXCEPT !.vintage = JsNumber("fin", 1, 0)],
     [GoodMetadata EXCEPT !.vintage = JsString("2020")],
     [GoodMetadata EXCEPT !.standard = ""],
     [GoodMetadata EXCEPT !.serialNumber = ""]}

\* validateCarbonMetadata: the error message, or "null"
ValidateCarbonMetadata(metadata) ==
    IF ~metadata.present THEN "Metadata is required"
    ELSE IF metadata.projectId = "" THEN "Project ID is required"
    ELSE IF Falsy(metadata.vintage) \/ metadata.vintage.t # "number"
         THEN "Valid vintage year is required"
    ELSE IF metadata.standard = "" THEN "Carbon standard is required"
    ELSE IF metadata.serialNumber = "" THEN "Serial number is required"
    ELSE "null"

\* bridgeToTargetChain, lines 281-307: the error thrown before the lock, or
\* "ok".
ValidateBridgeToTargetChain(sender, receiver, amount, metadata) ==
    IF sender = "" THEN "Sender address is required"
    ELSE IF receiver = "" THEN "Receiver address is required"
    ELSE IF Falsy(amount) THEN "Amount is required"
    ELSE IF IsNaN(ToBigNumber(amount)) \/ ~IsPositive(ToBigNumber(amount))
         THEN "Amount must be a positive number"
    ELSE IF FormatAddress(sender, ALGORAND) = "throw" THEN "Address formatting error"
    ELSE IF FormatAddress(receiver, ETHEREUM) = "throw" THEN "Address formatting error"
    ELSE IF metadata.present /\ ValidateCarbonMetadata(metadata) # "null"
         THEN "Invalid metadata"
    ELSE "ok"

\* bridgeToAlgorand, lines 384-392: the error thrown before the burn, or
\* "ok".
ValidateBridgeToAlgorand(sender, receiver, amount) ==
    IF FormatAddress(sender, ETHEREUM) = "throw" THEN "Address formatting error"
    ELSE IF FormatAddress(receiver, ALGORAND) = "throw" THEN "Address formatting error"
    ELSE "ok"

\* ethers.parseUnits(text, "ether") accepts a decimal numeral
ParseUnitsAccepts(text) == text \in {"0", "100", "-100"}

\* The signed integer a finite BigNumber holds.  Amounts of the target chain
\* are counted in whole tokens (10^18 base units).
ToNumber(bn) == bn.s * bn.m

NoApiCall == [op |-> "none", sender |-> "", receiver |-> "",
              amount |-> JsUndefined, metadata |-> NoMetadata,
              thrown |-> "", success |-> FALSE, status |-> "",
              adapterCalled |-> FALSE, event |-> FALSE, errorEvent |-> FALSE,
              bridgeId |-> 0]

\* generateBridgeId: an id not seen before
FreshId == Cardinality(KnownIds) + 1

\* bridgeToTargetChain(sender, receiver, amount, metadata).  chainOk: the
\* adapter reaches the node and can build the transaction group.
BridgeToTargetChain(sender, receiver, amount, metadata, chainOk) ==
    LET thrown == ValidateBridgeToTargetChain(sender, receiver, amount, metadata)
        bn     == ToBigNumber(amount)
        call   == [NoApiCall EXCEPT !.op = "bridgeToTargetChain",
                      !.sender = sender, !.receiver = receiver,
                      !.amount = amount, !.metadata = metadata,
                      !.thrown = thrown]
        tx     == [LockTx(FreshId, PENDING, FALSE, now, ToNumber(bn)) EXCEPT
                      !.sender = FormatAddress(sender, ALGORAND),
                      !.receiver = FormatAddress(receiver, ETHEREUM)]
    IN
    IF thrown # "ok"
    THEN /\ apiLast' = [call EXCEPT !.status = FAILED, !.errorEvent = TRUE]
         /\ UNCHANGED orchestrator
    ELSE IF ~chainOk \/ bn.k # "fin"
    THEN /\ apiLast' = [call EXCEPT !.status = FAILED, !.adapterCalled = TRUE]
         /\ UNCHANGED orchestrator
    ELSE /\ FreshId \in Ids
         /\ Deliver("lock", tx)
         /\ apiLast' = [call EXCEPT !.success = TRUE, !.status = PENDING,
                            !.adapterCalled = TRUE, !.event = TRUE,
                            !.bridgeId = FreshId]

\* bridgeToAlgorand(sender, receiver, amount).  chainOk: the adapter can
\* build the transaction object and the burn call data.
BridgeToAlgorand(sender, receiver, amount, chainOk) ==
    LET thrown == ValidateBridgeToAlgorand(sender, receiver, amount)
        bn     == ToBigNumber(amount)
        call   == [NoApiCall EXCEPT !.op = "bridgeToAlgorand",
                      !.sender = sender, !.receiver = receiver,
                      !.amount = amount, !.thrown = thrown]
        tx     == [BurnTx(FreshId, PENDING, FALSE, now, ToNumber(bn)) EXCEPT
                      !.sender = FormatAddress(sender, ETHEREUM),
                      !.receiver = FormatAddress(receiver, ALGORAND)]
    IN
    IF thrown # "ok"
    THEN /\ apiLast' = [call EXCEPT !.status = FAILED]
         /\ UNCHANGED orchestrator
    ELSE IF ~chainOk \/ ~ParseUnitsAccepts(BigToString(bn))
    THEN /\ apiLast' = [call EXCEPT !.status = FAILED, !.adapterCalled = TRUE]
         /\ UNCHANGED orchestrator
    ELSE /\ FreshId \in Ids
         /\ Deliver("burn", tx)
         /\ apiLast' = [call EXCEPT !.success = TRUE, !.status = PENDING,
                            !.adapterCalled = TRUE, !.event = TRUE,
                            !.bridgeId = FreshId]

\* The calls made: every amount with every sender and receiver of a lock from
\* A to b, and every metadata with a lock of 100 from A to b.
CallBridgeToTargetChain ==
    \E sender \in {"", "bad", "A"}, receiver \in {"", "bad", "b"},
       amount \in AmountInputs, metadata \in MetadataInputs, chainOk \in BOOLEAN :
        /\ Len(handlers) < MaxEvents
        /\ \/ metadata = NoMetadata
           \/ amount = JsNumber("fin", 1, 100) /\ sender = "A" /\ receiver = "b"
        /\ BridgeToTargetChain(sender, receiver, amount, metadata, chainOk)
        /\ UNCHANGED <<quorum, escrow, construction, bus, utilsCalls, statusLast>>

\* The calls made: every amount with every sender and receiver of a burn
\* from c to D.
CallBridgeToAlgorand ==
    \E sender \in {"", "bad", "c"}, receiver \in {"", "bad", "D"},
       amount \in AmountInputs, chainOk \in BOOLEAN :
        /\ Len(handlers) < MaxEvents
        /\ BridgeToAlgorand(sender, receiver, amount, chainOk)
        /\ UNCHANGED <<quorum, escrow, construction, bus, utilsCalls, statusLast>>

\* getTransaction(bridgeId): the stored transaction, or undefined (NoEntry)
GetTransaction_LiveOnly(bridgeId) ==
    IF transactions[bridgeId].present
       /\ transactions[bridgeId].status \notin {MINTED, RELEASED, FAILED}
    THEN transactions[bridgeId] ELSE NoEntry
GetTransaction(bridgeId) ==
    IF transactions[bridgeId].present THEN transactions[bridgeId] ELSE NoEntry

\* listTransactions(): the values of the store
ListTransactions == {transactions[id] : id \in {k \in Ids : transactions[k].present}}

\* The statuses an adapter's getBridgeTransactionStatus can return: FAILED
\* stands for "not found or query failed".
AlgorandStatuses == {PENDING, LOCKED, RELEASED, FAILED}
TargetStatuses == {PENDING, MINTED, BURNED, FAILED}

NoStatusCall == [op |-> "none", bridgeId |-> 0, stored |-> FALSE,
                 algorandQueried |-> FALSE, targetQueried |-> FALSE,
                 algorandStatus |-> "", targetStatus |-> "", result |-> ""]

\* getTransactionStatus(bridgeId), where algorandStatus and targetStatus are
\* what the adapters answer if asked
GetTransactionStatus_AlgorandOnly(bridgeId, algorandStatus, targetStatus) ==
    LET tx == transactions[bridgeId] IN
    IF tx.present
    THEN [op |-> "getTransactionStatus", bridgeId |-> bridgeId,
          stored |-> TRUE, algorandQueried |-> FALSE, targetQueried |-> FALSE,
          algorandStatus |-> algorandStatus, targetStatus |-> targetStatus,
          result |-> tx.status]
    ELSE [op |-> "getTransactionStatus", bridgeId |-> bridgeId,
          stored |-> FALSE, algorandQueried |-> TRUE, targetQueried |-> FALSE,
          algorandStatus |-> algorandStatus, targetStatus |-> targetStatus,
          result |-> algorandStatus]
GetTransactionStatus(bridgeId, algorandStatus, targetStatus) ==
    LET tx == transactions[bridgeId] IN
    IF tx.present
    THEN [op |-> "getTransactionStatus", bridgeId |-> bridgeId,
          stored |-> TRUE, algorandQueried |-> FALSE, targetQueried |-> FALSE,
          algorandStatus |-> algorandStatus, targetStatus |-> targetStatus,
          result |-> tx.status]
    ELSE IF algorandStatus # FAILED
    THEN [op |-> "getTransactionStatus", bridgeId |-> bridgeId,
          stored |-> FALSE, algorandQueried |-> TRUE, targetQueried |-> FALSE,
          algorandStatus |-> algorandStatus, targetStatus |-> targetStatus,
          result |-> algorandStatus]
    ELSE [op |-> "getTransactionStatus", bridgeId |-> bridgeId,
          stored |-> FALSE, algorandQueried |-> TRUE, targetQueried |-> TRUE,
          algorandStatus |-> algorandStatus, targetStatus |-> targetStatus,
          result |-> targetStatus]

CallGetTransactionStatus ==
    \E bridgeId \in Ids, algorandStatus \in AlgorandStatuses,
       targetStatus \in TargetStatuses :
        /\ statusLast' =
               GetTransactionStatus(bridgeId, algorandStatus, targetStatus)
        /\ UNCHANGED <<orchestrator, quorum, escrow, construction, bus, utilsCalls, apiLast>>

\* One well-formed transfer in each direction, for the runs that follow a
\* transfer from the call to the handlers
TransferToTargetChain ==
    \E chainOk \in BOOLEAN :
        /\ Len(handlers) < MaxEvents
        /\ BridgeToTargetChain("A", "b", JsNumber("fin", 1, 100), NoMetadata,
                               chainOk)
        /\ UNCHANGED <<quorum, escrow, construction, bus, utilsCalls, statusLast>>

TransferToAlgorand ==
    \E chainOk \in BOOLEAN :
        /\ Len(handlers) < MaxEvents
        /\ BridgeToAlgorand("c", "D", JsNumber("fin", 1, 100), chainOk)
        /\ UNCHANGED <<quorum, escrow, construction, bus, utilsCalls, statusLast>>

\* ------------------------------------------------------------------------
\* Construction: loadConfigFromEnv, createBridgeConfig and the constructor
\* ------------------------------------------------------------------------
\* A key of an object literal is absent, or present with a JavaScript value
\* (undefined included).
Absent == JsValue("absent", "nan", 0, 0, "")
Int2Js(n) == JsNumber("fin", IF n < 0 THEN -1 ELSE 1, IF n < 0 THEN -n ELSE n)

\* {...a, ...b} for one key: b's value when b has the key
Spread(a, b) == IF b = Absent THEN a ELSE b

\* X ? parseInt(X) : undefined, for an environment variable that is unset
\* ("") or holds text
ParseIntEnv(text) ==
    CASE text = "" -> JsUndefined
      [] text = "0" -> Int2Js(0)
      [] text = "1" -> Int2Js(1)
      [] text = "2" -> Int2Js(2)
      [] text = "3" -> Int2Js(3)
      [] text = "7" -> Int2Js(7)
      [] OTHER -> JsNumber("nan", 0, 0)

\* X ? X.split(",") : [], by the number of addresses listed
SplitEnv(text) ==
    CASE text = "" -> 0
      [] text = "v1" -> 1
      [] text = "v1,v2" -> 2
      [] OTHER -> 1

\* process.env
EnvInputs ==
    [escrowAppId : {"", "7"}, carbonAssetId : {"7"},
     bridgeContractAddress : {"", "0xB"}, tokenContractAddress : {"0xT"},
     verifiers : {"", "v1,v2"}, minVerifierSignatures : {"", "1", "3", "abc"}]

\* The Partial<BridgeConfig> handed to the constructor.  algorand and
\* targetChain are absent or objects; verifiers is absent or a list, given by
\* its length.
NoObject == [given |-> FALSE, a |-> Absent, b |-> Absent]
Object(a, b) == [given |-> TRUE, a |-> a, b |-> b]
ConfigInputs ==
    [algorand : {NoObject, Object(Int2Js(7), Int2Js(7)),
                 Object(Int2Js(0), Int2Js(7)), Object(Absent, Int2Js(7)),
                 Object(Int2Js(7), Int2Js(0))},
     targetChain : {NoObject, Object(JsString("0xB"), JsString("0xT")),
                    Object(JsString("0xB"), JsString(""))},
     verifiers : {Absent, Int2Js(0), Int2Js(1)},
     minVerifierSignatures : {Absent, Int2Js(0), Int2Js(1), Int2Js(2)}]

\* loadConfigFromEnv: every key is present, with undefined for an unset
\* variable; verifiers defaults to the empty list.
LoadConfigFromEnv(env) ==
    [algorand |-> Object(ParseIntEnv(env.escrowAppId),
                         ParseIntEnv(env.carbonAssetId)),
     targetChain |-> Object(
         IF env.bridgeContractAddress = "" THEN JsUndefined
         ELSE JsString(env.bridgeContractAddress),
         IF env.tokenContractAddress = "" THEN JsUndefined
         ELSE JsString(env.tokenContractAddress)),
     verifiers |-> Int2Js(SplitEnv(env.verifiers)),
     minVerifierSignatures |-> ParseIntEnv(env.minVerifierSignatures)]

\* The constructor's {...envConfig, ...config}: a top-level key of config
\* replaces the one of envConfig, objects as a whole.
MergeEnv(envConfig, config) ==
    [algorand |-> IF config.algorand.given THEN config.algorand
                  ELSE envConfig.algorand,
     targetChain |-> IF config.targetChain.given THEN config.targetChain
                     ELSE envConfig.targetChain,
     verifiers |-> Spread(envConfig.verifiers, config.verifiers),
     minVerifierSignatures |->
         Spread(envConfig.minVerifierSignatures, config.minVerifierSignatures)]

\* defaultConfig
DefaultMinVerifierSignatures == 2
DefaultConfig ==
    [algorand |-> Object(Int2Js(0), Int2Js(0)),
     targetChain |-> Object(JsString(""), JsString("")),
     verifiers |-> Int2Js(0),
     minVerifierSignatures |-> Int2Js(DefaultMinVerifierSignatures)]

\* createBridgeConfig, lines 41-53: the merge with the defaults
MergeDefaults(config) ==
    [algorand |-> Object(Spread(DefaultConfig.algorand.a, config.algorand.a),
                         Spread(DefaultConfig.algorand.b, config.algorand.b)),
     targetChain |-> Object(
         Spread(DefaultConfig.targetChain.a, config.targetChain.a),
         Spread(DefaultConfig.targetChain.b, config.targetChain.b)),
     verifiers |-> Spread(DefaultConfig.verifiers, config.verifiers),
     minVerifierSignatures |->
         Spread(DefaultConfig.minVerifierSignatures,
                config.minVerifierSignatures)]

\* length < minVerifierSignatures, as JavaScript compares a number with a
\* number, NaN or undefined
JsLess(n, v) ==
    /\ v.t = "number"
    /\ \/ v.k = "inf" /\ v.s > 0
       \/ v.k = "fin" /\ n < v.s * v.m

FalsyOrAbsent(v) == v = Absent \/ Falsy(v)

\* createBridgeConfig, lines 55-90: the error thrown, or "ok"
ValidateConfig(merged) ==
    IF FalsyOrAbsent(merged.algorand.a)
    THEN "Algorand escrow application ID is required"
    ELSE IF FalsyOrAbsent(merged.algorand.b)
    THEN "Algorand carbon asset ID is required"
    ELSE IF FalsyOrAbsent(merged.targetChain.a)
    THEN "Target chain bridge contract address is required"
    ELSE IF FalsyOrAbsent(merged.targetChain.b)
    THEN "Target chain token contract address is required"
    ELSE IF JsLess(merged.verifiers.m, merged.minVerifierSignatures)
    THEN "Number of verifiers must be greater than or equal to minimum required signatures"
    ELSE "ok"

NotConstructed == [state |-> "none", env |-> <<>>, given |-> <<>>,
                   config |-> <<>>, thrown |-> ""]

\* new CarbonCreditBridge(config) under the environment env
Construct(env, config) ==
    LET merged == MergeDefaults(MergeEnv(LoadConfigFromEnv(env), config))
        thrown == ValidateConfig(merged)
    IN
    /\ cfg.state = "none"
    /\ cfg' = [state |-> IF thrown = "ok" THEN "built" ELSE "thrown",
               env |-> env, given |-> config, config |-> merged,
               thrown |-> thrown]
    /\ UNCHANGED <<orchestrator, quorum, escrow, api, bus, utilsCalls>>

NewBridge == \E env \in EnvInputs, config \in ConfigInputs : Construct(env, config)

\* Once constructed, the instance answers calls: here, that its
\* configuration is read.
ReadConfig ==
    /\ cfg.state = "built"
    /\ cfg' = [cfg EXCEPT !.state = "in use"]
    /\ UNCHANGED <<orchestrator, quorum, escrow, api, bus, utilsCalls>>

\* ------------------------------------------------------------------------
\* The event bus: BridgeEventEmitter over Node's EventEmitter
\* ------------------------------------------------------------------------
MaxBusEvents == 2
MaxListeners == 2
MaxBusOps == 3

\* BridgeEventType (the three the bus model emits) and the channels
BusTypes == {"lock", "timeout", "error"}
Channels == BusTypes \cup {"any"}
\* Two callbacks of the embedding program
BusHandlers == {"h1", "h2"}

\* setupEventListeners: the bound handlers, which nobody else holds
InternalListeners ==
    [ch \in Channels |->
        CASE ch = "lock" -> <<"handleLockEvent">>
          [] ch = "timeout" -> <<"handleTimeoutEvent">>
          [] OTHER -> <<>>]

UserCount(ls) == Cardinality({i \in 1..Len(ls) : ls[i] \in BusHandlers})

\* EventEmitter.on: appends, whether or not the callback is already listed
OnBridgeEvent(ch, h) ==
    /\ UserCount(listeners[ch]) < MaxListeners
    /\ busOps < MaxBusOps
    /\ busOps' = busOps + 1
    /\ listeners' = [listeners EXCEPT ![ch] = Append(@, h)]
    /\ offCalled' = [offCalled EXCEPT ![ch][h] = FALSE]
    /\ UNCHANGED <<busEvents, deliveries>>

\* EventEmitter.off: removes the most recently added registration of the
\* callback (calls for a callback that is not registered change nothing and
\* are left out)
LastIndexOf(ls, h) ==
    LET found == {i \in 1..Len(ls) : ls[i] = h} IN
    IF found = {} THEN 0
    ELSE CHOOSE i \in found : \A j \in found : j <= i
RemoveAt(ls, k) ==
    [i \in 1..(Len(ls) - 1) |-> IF i < k THEN ls[i] ELSE ls[i + 1]]
RemoveListener(ls, h) ==
    IF LastIndexOf(ls, h) = 0 THEN ls ELSE RemoveAt(ls, LastIndexOf(ls, h))

OffBridgeEvent(ch, h) ==
    /\ LastIndexOf(listeners[ch], h) # 0
    /\ busOps < MaxBusOps
    /\ busOps' = busOps + 1
    /\ listeners' = [listeners EXCEPT ![ch] = RemoveListener(@, h)]
    /\ offCalled' = [offCalled EXCEPT ![ch][h] = TRUE]
    /\ UNCHANGED <<busEvents, deliveries>>

\* EventEmitter.emit(ch, event): the listeners of ch, in registration order;
\* an "error" event nobody listens to is thrown instead.
EmitThrows(ch) == ch = "error" /\ listeners[ch] = <<>>
Invocations(ch, e) ==
    [i \in 1..Len(listeners[ch]) |->
        [h |-> listeners[ch][i], e |-> e, ch |-> ch,
         afterOff |-> IF listeners[ch][i] \in BusHandlers
                      THEN offCalled[ch][listeners[ch][i]] ELSE FALSE]]

\* emitBridgeEvent(type, ...) for the event numbered e: emit(type, event),
\* then emit("any", event), unless the first throws
EmitBridgeEvent(type, e) ==
    IF EmitThrows(type) THEN <<>>
    ELSE Invocations(type, e) \o Invocations("any", e)

BusEvent(type) ==
    [type |-> type, regType |-> listeners[type], regAny |-> listeners["any"],
     thrown |-> EmitThrows(type)]

\* An event is emitted.  A LOCK event whose transaction has timed out makes
\* handleLockEvent, the first listener of "lock", emit TIMEOUT from
\* verifyTransaction before it reaches its first await: that emission runs
\* inside the delivery of the LOCK event.
Emit(type, timedOut) ==
    LET e == Len(busEvents) + 1
        own == EmitBridgeEvent(type, e)
    IN
    IF type = "lock" /\ timedOut
    THEN /\ e + 1 <= MaxBusEvents
         /\ busEvents' = busEvents \o <<BusEvent("lock"), BusEvent("timeout")>>
         /\ deliveries' = deliveries \o <<Head(own)>>
                              \o EmitBridgeEvent("timeout", e + 1) \o Tail(own)
         /\ UNCHANGED <<listeners, offCalled, busOps>>
    ELSE /\ e <= MaxBusEvents
         /\ busEvents' = Append(busEvents, BusEvent(type))
         /\ deliveries' = deliveries \o own
         /\ UNCHANGED <<listeners, offCalled, busOps>>

BusOn ==
    \E ch \in Channels, h \in BusHandlers :
        OnBridgeEvent(ch, h) /\ UNCHANGED <<orchestrator, quorum, escrow, api, construction, utilsCalls>>
BusOff ==
    \E ch \in Channels, h \in BusHandlers :
        OffBridgeEvent(ch, h) /\ UNCHANGED <<orchestrator, quorum, escrow, api, construction, utilsCalls>>
BusEmit ==
    \E type \in BusTypes, timedOut \in BOOLEAN :
        Emit(type, timedOut) /\ UNCHANGED <<orchestrator, quorum, escrow, api, construction, utilsCalls>>

\* ------------------------------------------------------------------------
\* The quorum stage of verifyTransaction on its own (lines 64-82), for a
\* transaction inside the timeout window whose proof check has passed
\* ------------------------------------------------------------------------
NoResult == [decided |-> FALSE, signatures |-> <<>>, isValid |-> FALSE,
             evIsValid |-> FALSE, evSignatures |-> <<>>]

\* requestVerifierSignature for verifier v settles.
VerifierSettles(v, resp) ==
    /\ ~vresult.decided
    /\ vresp[v] = "pending"
    /\ vresp' = [vresp EXCEPT ![v] = resp]
    /\ UNCHANGED vresult
    /\ UNCHANGED <<orchestrator, escrow, api, construction, bus, utilsCalls>>

\* Promise.all resolves: the signatures are filtered, the VERIFICATION event
\* is emitted and the result returned.
QuorumDecided ==
    LET signatures == CollectVerifierSignatures(vresp)
        isValid    == HasEnoughSignatures(signatures)
    IN
    /\ ~vresult.decided
    /\ \A v \in Verifiers : vresp[v] # "pending"
    /\ vresult' = [decided |-> TRUE, signatures |-> signatures,
                   isValid |-> isValid, evIsValid |-> isValid,
                   evSignatures |-> signatures]
    /\ UNCHANGED vresp
    /\ UNCHANGED <<orchestrator, escrow, api, construction, bus, utilsCalls>>

\* ------------------------------------------------------------------------
\* The escrow application on Algorand (the TEAL approval program), read at
\* the level of its storage operations, assertions and inner transaction
\* ------------------------------------------------------------------------
\* bridge_admin is the creator of the application; the bridge account is
\* taken to be that creator.
Admin == "ADMIN"
Lockers == {"A", "X"}
Callers == {Admin, "X"}
Receivers == {"A", "B"}

\* The accounts whose addresses the approval program embeds as verifiers.
VerifierAccounts == {"V1", "V2"}
VerifyCallers == VerifierAccounts \cup {"X"}

\* A bridge record of the application's storage; signed holds the accounts
\* whose key bridge_<id>_verifier_<account> is "signed".
NoRecord == [present |-> FALSE, sender |-> "", receiver |-> "", amount |-> 0,
             status |-> "", signed |-> {}]
NoAppCall == [op |-> "none", caller |-> "", id |-> 0, receiver |-> "",
              amount |-> 0, approved |-> FALSE, why |-> ""]

\* handle_release: "approved", or the check that rejects the call.
\*   the sender is bridge_admin; the record "bridge_" ++ id exists in global
\*   storage; its status is "verified"; its receiver equals argument 2; the
\*   inner transfer of argument 3 units to argument 2 can be paid.
ReleaseVerdict_AdminOnly(caller, id, receiver, amount) ==
    IF caller # Admin THEN "not admin"
    ELSE IF escrowHeld < amount THEN "overspend"
    ELSE "approved"

ReleaseVerdict(caller, id, receiver, amount) ==
    LET rec == escrowGlobal[id] IN
    IF caller # Admin THEN "not admin"
    ELSE IF ~rec.present THEN "no record"
    ELSE IF rec.status # "verified" THEN "not verified"
    ELSE IF rec.receiver # receiver THEN "receiver mismatch"
    ELSE IF escrowHeld < amount THEN "overspend"
    ELSE "approved"

\* A "release" call is evaluated by the application.
HandleRelease(caller, id, receiver, amount) ==
    LET verdict == ReleaseVerdict(caller, id, receiver, amount) IN
    /\ escrowLast' = [op |-> "release", caller |-> caller, id |-> id,
                      receiver |-> receiver, amount |-> amount,
                      approved |-> (verdict = "approved"), why |-> verdict]
    /\ IF verdict = "approved"
       THEN /\ escrowPaid' = escrowPaid \cup
                    {[id |-> id, receiver |-> receiver, amount |-> amount]}
            /\ escrowHeld' = escrowHeld - amount
            /\ escrowGlobal' = [escrowGlobal EXCEPT ![id].status = "released"]
       ELSE UNCHANGED <<escrowPaid, escrowHeld, escrowGlobal>>
    /\ UNCHANGED escrowLocal

\* handle_lock: a group of an asset transfer to the escrow account and the
\* "lock" call.  The record id ++ "bridge_" is written to the sender's
\* local storage with status "locked".
HandleLock(sender, id, receiver, amount, groupOk) ==
    /\ escrowHeld + amount <= MaxLocks * 100
    /\ escrowLast' = [op |-> "lock", caller |-> sender, id |-> id,
                      receiver |-> receiver, amount |-> amount,
                      approved |-> groupOk,
                      why |-> IF groupOk THEN "approved" ELSE "group"]
    /\ IF groupOk
       THEN /\ escrowLocal' = [escrowLocal EXCEPT ![sender][id] =
                    [present |-> TRUE, sender |-> sender, receiver |-> receiver,
                     amount |-> amount, status |-> "locked", signed |-> {}]]
            /\ escrowHeld' = escrowHeld + amount
       ELSE UNCHANGED <<escrowLocal, escrowHeld>>
    /\ UNCHANGED <<escrowGlobal, escrowPaid, compResult>>
    /\ UNCHANGED <<orchestrator, quorum, api, construction, bus, utilsCalls>>

\* is_verifier: the helper pushes the embedded verifier addresses and joins
\* them with ||; the sender left on the stack is compared with none of them.
IsVerifier(sender) == VerifierAccounts # {}

\* The count loop of handle_verify looks up the key
\* "_verifier_" ++ "bridge_" ++ id once per embedded verifier; the key that
\* was marked is "bridge_" ++ id ++ "_verifier_" ++ sender, so no lookup
\* finds a "signed" value.
CountedKeySigned(id, v) == FALSE
SignatureCount(id) == Cardinality({v \in VerifierAccounts : CountedKeySigned(id, v)})

\* handle_verify: "approved", or the assertion that rejects the call.
\*   is_verifier holds; the global record "bridge_" ++ id has status "locked".
VerifyVerdict(sender, id) ==
    LET rec == escrowGlobal[id] IN
    IF ~IsVerifier(sender) THEN "not verifier"
    ELSE IF ~(rec.present /\ rec.status = "locked") THEN "not locked"
    ELSE "approved"

\* A "verify" call is evaluated by the application: the sender's key is
\* marked "signed", the marks are counted and, with at least
\* min_verifier_signatures of them, the status becomes "verified".
HandleVerify(sender, id) ==
    LET verdict == VerifyVerdict(sender, id) IN
    /\ escrowLast' = [op |-> "verify", caller |-> sender, id |-> id,
                      receiver |-> "", amount |-> 0,
                      approved |-> (verdict = "approved"), why |-> verdict]
    /\ IF verdict = "approved"
       THEN escrowGlobal' = [escrowGlobal EXCEPT
                ![id].signed = @ \cup {sender},
                ![id].status = IF SignatureCount(id) >= minSigs
                               THEN "verified" ELSE @]
       ELSE UNCHANGED escrowGlobal
    /\ UNCHANGED <<escrowLocal, escrowHeld, escrowPaid, compResult>>
    /\ UNCHANGED <<orchestrator, quorum, api, construction, bus, utilsCalls>>

\* Any account submits a "verify" call.
EscrowVerify ==
    \E sender \in VerifyCallers, id \in Ids : HandleVerify(sender, id)

EscrowLock ==
    \E sender \in Lockers, id \in Ids, amount \in Amounts, groupOk \in BOOLEAN :
        HandleLock(sender, id, "B", amount, groupOk)

\* Any account submits a "release" call.
EscrowRelease ==
    \E caller \in Callers, id \in Ids, receiver \in Receivers, amount \in Amounts :
        /\ HandleRelease(caller, id, receiver, amount)
        /\ UNCHANGED compResult
        /\ UNCHANGED <<orchestrator, quorum, api, construction, bus, utilsCalls>>

\* The transaction behind a record locked in the escrow, as the orchestrator
\* holds it.
LockedTx(id, rec) ==
    [LockTx(id, LOCKED, TRUE, now - TickMs, rec.amount)
        EXCEPT !.sender = rec.sender, !.receiver = rec.receiver]

\* The transaction of a locked record times out: handleTimeoutEvent has
\* releaseCarbonCredits submit its compensating release, signed by the
\* bridge account, and the application evaluates it.
CompensatingRelease ==
    \E id \in Ids, sender \in Lockers :
        LET rec  == escrowLocal[sender][id]
            call == TimeoutReleaseCall(LockedTx(id, rec))
        IN
        /\ rec.present /\ rec.status = "locked"
        /\ compResult[id] = "none"
        /\ HandleRelease(Admin, call.id, call.receiver, call.amount)
        /\ compResult' = [compResult EXCEPT ![id] =
               IF ReleaseVerdict(Admin, call.id, call.receiver, call.amount)
                      = "approved"
               THEN "approved" ELSE "rejected"]
        /\ UNCHANGED <<orchestrator, quorum, api, construction, bus, utilsCalls>>

\* ------------------------------------------------------------------------
\* Specification
\* ------------------------------------------------------------------------
Zero == [id \in Ids |-> 0]

InitBridge ==
    /\ now = StartMs
    /\ minSigs \in 0..NumVerifiers
    /\ transactions = [id \in Ids |-> NoEntry]
    /\ handlers = <<>>
    /\ mintCalls = Zero /\ mintOk = Zero
    /\ relCalls = Zero /\ relOk = Zero
    /\ compCalls = Zero /\ compOk = Zero
    /\ validFor = {}
    /\ timeoutDone = {}
    /\ mintAfterTimeout = {}
    /\ vresp = [v \in Verifiers |-> "pending"]
    /\ vresult = NoResult
    /\ escrowLocal = [a \in Lockers |-> [id \in Ids |-> NoRecord]]
    /\ escrowGlobal = [id \in Ids |-> NoRecord]
    /\ escrowHeld = 0
    /\ escrowPaid = {}
    /\ escrowLast = NoAppCall
    /\ compResult = [id \in Ids |-> "none"]
    /\ apiLast = NoApiCall
    /\ statusLast = NoStatusCall
    /\ cfg = NotConstructed
    /\ listeners = InternalListeners
    /\ busEvents = <<>>
    /\ deliveries = <<>>
    /\ offCalled = [ch \in Channels |-> [h \in BusHandlers |-> FALSE]]
    /\ busOps = 0

Init ==
    /\ InitBridge
    /\ timedOutCall = NoTimedOutCall
    /\ convertCall = NoConvertCall
    /\ proofCall = NoProofCall
    /\ hashCall = NoHashCall

Running == 1..Len(handlers)

Next ==
    \/ Tick
    \/ HandleLockEvent
    \/ HandleBurnEvent
    \/ HandleVerificationEvent
    \/ HandleTimeoutEvent
    \/ \E h \in Running, ok \in BOOLEAN : ProofCheckDone(h, ok)
    \/ \E h \in Running, resp \in [Verifiers -> RespKinds] :
           SignaturesCollected(h, resp)
    \/ \E h \in Running : VerificationReturned(h)
    \/ \E h \in Running, success \in BOOLEAN : MintDone(h, success)
    \/ \E h \in Running, success \in BOOLEAN : ReleaseDone(h, success)
    \/ \E h \in Running, success \in BOOLEAN : TimeoutReleaseDone(h, success)

Spec == Init /\ [][Next]_vars

\* Every awaited call returns: the adapters catch their errors and answer with
\* a result, the proof query and the verifier requests settle or time out.
Fairness ==
    /\ WF_vars(\E h \in Running, ok \in BOOLEAN : ProofCheckDone(h, ok))
    /\ WF_vars(\E h \in Running, resp \in [Verifiers -> RespKinds] :
                  SignaturesCollected(h, resp))
    /\ WF_vars(\E h \in Running : VerificationReturned(h))
    /\ WF_vars(\E h \in Running, success \in BOOLEAN : MintDone(h, success))
    /\ WF_vars(\E h \in Running, success \in BOOLEAN : ReleaseDone(h, success))
    /\ WF_vars(\E h \in Running, success \in BOOLEAN :
                  TimeoutReleaseDone(h, success))

FairSpec == Spec /\ Fairness

NextQuorum ==
    \/ \E v \in Verifiers, resp \in RespKinds : VerifierSettles(v, resp)
    \/ QuorumDecided

QuorumSpec == Init /\ [][NextQuorum]_vars

NextEscrow ==
    \/ EscrowLock
    \/ EscrowVerify
    \/ EscrowRelease
    \/ CompensatingRelease

EscrowSpec == Init /\ [][NextEscrow]_vars

NextApi ==
    \/ CallBridgeToTargetChain
    \/ CallBridgeToAlgorand

ApiSpec == Init /\ [][NextApi]_vars

\* Transfers from the public call through the handlers, next to events the
\* chain watchers deliver
NextTransfer ==
    \/ TransferToTargetChain
    \/ TransferToAlgorand
    \/ HandleLockEvent
    \/ HandleBurnEvent
    \/ \E h \in Running, ok \in BOOLEAN : ProofCheckDone(h, ok)
    \/ \E h \in Running, resp \in [Verifiers -> RespKinds] :
           SignaturesCollected(h, resp)
    \/ \E h \in Running : VerificationReturned(h)
    \/ \E h \in Running, success \in BOOLEAN : MintDone(h, success)
    \/ \E h \in Running, success \in BOOLEAN : ReleaseDone(h, success)
    \/ \E h \in Running, success \in BOOLEAN : TimeoutReleaseDone(h, success)

TransferSpec == Init /\ [][NextTransfer]_vars

\* Status queries against a store that event deliveries fill
NextStatus ==
    \/ HandleLockEvent
    \/ HandleBurnEvent
    \/ HandleTimeoutEvent
    \/ CallGetTransactionStatus

StatusSpec == Init /\ [][NextStatus]_vars

NextBus ==
    \/ BusOn
    \/ BusOff
    \/ BusEmit

BusSpec == Init /\ [][NextBus]_vars

\* isTransactionTimedOut applied to drawn arguments
TimedOutInit ==
    /\ InitBridge
    /\ timedOutCall \in TimedOutArgs
    /\ convertCall = NoConvertCall
    /\ proofCall = NoProofCall
    /\ hashCall = NoHashCall

NextTimedOut ==
    /\ ApplyIsTransactionTimedOut
    /\ UNCHANGED <<orchestrator, quorum, escrow, api, construction, bus>>

TimedOutSpec == TimedOutInit /\ [][NextTimedOut]_vars

\* convertAmount applied to drawn arguments, there and back
ConvertInit ==
    /\ InitBridge
    /\ timedOutCall = NoTimedOutCall
    /\ convertCall \in ConvertArgs
    /\ proofCall = NoProofCall
    /\ hashCall = NoHashCall

NextConvert ==
    /\ \/ ApplyConvertAmount
       \/ ApplyConvertAmountBack
    /\ UNCHANGED <<orchestrator, quorum, escrow, api, construction, bus>>

ConvertSpec == ConvertInit /\ [][NextConvert]_vars

\* verifyAlgorandTransaction applied to drawn inputs
ProofInit ==
    /\ InitBridge
    /\ timedOutCall = NoTimedOutCall
    /\ convertCall = NoConvertCall
    /\ proofCall \in ProofArgs
    /\ hashCall = NoHashCall

NextProof ==
    /\ ApplyVerifyAlgorandTransaction
    /\ UNCHANGED <<orchestrator, quorum, escrow, api, construction, bus>>

ProofSpec == ProofInit /\ [][NextProof]_vars

\* createTransactionHash applied to two drawn transactions
HashInit ==
    /\ InitBridge
    /\ timedOutCall = NoTimedOutCall
    /\ convertCall = NoConvertCall
    /\ proofCall = NoProofCall
    /\ hashCall \in HashArgs

NextHash ==
    /\ ApplyCreateTransactionHash
    /\ UNCHANGED <<orchestrator, quorum, escrow, api, construction, bus>>

HashSpec == HashInit /\ [][NextHash]_vars

NextConstruction ==
    \/ NewBridge
    \/ ReadConfig

ConstructionSpec == Init /\ [][NextConstruction]_vars

\* ------------------------------------------------------------------------
\* Claims
\* ------------------------------------------------------------------------
Handlers == 1..MaxEvents
Range(seq) == {seq[i] : i \in 1..Len(seq)}
Terminal == {MINTED, RELEASED, FAILED}

\* h handles the only Lock / Burn event delivered for its bridge id.
Sole(h) ==
    \A g \in Running : handlers[g].event.id = handlers[h].event.id => g = h

\* C1: for every bridge id a successful mint and a successful compensating
\* release never both occur, and no mint is submitted for an id after its
\* transaction-level timeout has been handled.
C1_NeverMintedAndReleased ==
    /\ \A id \in Ids : ~(mintOk[id] > 0 /\ compOk[id] > 0)
    /\ mintAfterTimeout = {}

\* C2: a stored transaction is MINTED or RELEASED only if a verification of
\* that id returned isValid = true.
C2_TerminalSuccessNeedsValid ==
    \A id \in Ids :
        (transactions[id].present /\ transactions[id].status \in {MINTED, RELEASED})
            => id \in validFor

C2_Witness ==
    \E id \in Ids :
        /\ transactions[id].present
        /\ transactions[id].status = MINTED
        /\ id \in validFor
        /\ mintOk[id] = 1

\* C3: for every bridge id the mint call and the release call to the receiver
\* are each made at most once, duplicate Lock / Burn deliveries included.
C3_MintReleaseAtMostOnce ==
    \A id \in Ids : mintCalls[id] <= 1 /\ relCalls[id] <= 1

\* C4: once the stored status of an id is MINTED, RELEASED or FAILED, no step
\* changes it.
C4_TerminalIsFinal ==
    [][\A id \in Ids :
          (transactions[id].present /\ transactions[id].status \in Terminal)
              => transactions'[id].status = transactions[id].status]_vars

\* The verifiers whose answer the engine accepted.
Accepted == {v \in Verifiers : RequestVerifierSignature(v, vresp[v]) # Null}

\* C5: the result of a quorum attempt has isValid = true exactly when the
\* number of accepted signatures is at least minVerifierSignatures, the
\* returned list holds exactly the accepted signatures, and the VERIFICATION
\* event carries the same isValid and the same list.
C5_QuorumThreshold ==
    vresult.decided =>
        /\ vresult.isValid <=> (Cardinality(Accepted) >= minSigs)
        /\ Range(vresult.signatures) = Accepted
        /\ Len(vresult.signatures) = Cardinality(Accepted)
        /\ vresult.evIsValid = vresult.isValid
        /\ vresult.evSignatures = vresult.signatures

C5_Witness ==
    /\ vresult.decided
    /\ minSigs > 0
    /\ ~vresult.isValid
    /\ \E v \in Verifiers : vresp[v] = "httperr"

\* C6: a verifier's signature is collected exactly when its answer is a
\* success response whose body carries a string signature field.
C6_AcceptedIffWellFormed ==
    vresult.decided =>
        \A v \in Verifiers :
            (v \in Range(vresult.signatures)) <=> WellFormed(vresp[v])

\* C7 (scenario A): a Lock event whose proof check passes, whose verifiers
\* return at least minVerifierSignatures well-formed signatures and whose
\* mint does not fail ends with the id stored as MINTED with the event's
\* amount.
C7_ScenarioA ==
    \A h \in Running :
        LET hr == handlers[h] IN
        (/\ hr.kind = "lock" /\ Sole(h)
         /\ hr.stage = "quorum" /\ hr.attempt.attested
         /\ hr.pc = "done" /\ hr.result # "failed")
            => /\ transactions[hr.event.id].present
               /\ transactions[hr.event.id].status = MINTED
               /\ transactions[hr.event.id].id = hr.event.id
               /\ transactions[hr.event.id].amount = hr.event.amount

\* C8 (scenario B): a Burn event whose proof check passes, whose verifiers
\* return at least minVerifierSignatures well-formed signatures and whose
\* release does not fail ends with the id stored as RELEASED, the release
\* having been issued to the event's receiver.
C8_ScenarioB ==
    \A h \in Running :
        LET hr == handlers[h] IN
        (/\ hr.kind = "burn" /\ Sole(h)
         /\ hr.stage = "quorum" /\ hr.attempt.attested
         /\ hr.pc = "done" /\ hr.result # "failed")
            => /\ transactions[hr.event.id].present
               /\ transactions[hr.event.id].status = RELEASED
               /\ hr.call.op = "release"
               /\ hr.call.receiver = hr.event.receiver

\* The event of h carries an origin-chain transaction with status LOCKED that
\* is older than the timeout window when it is verified.
TimedOutLocked(h) ==
    /\ h \in Running
    /\ handlers[h].kind = "lock"
    /\ handlers[h].event.sourceChain = ALGORAND
    /\ handlers[h].event.status = LOCKED
    /\ handlers[h].at - handlers[h].event.timestamp > VerificationTimeoutMs

C10_ScenarioD ==
    \A h \in Running :
        LET hr == handlers[h] IN
        /\ hr.stage = "quorum" =>
              /\ hr.attempt.noSignature \cap Range(hr.attempt.signatures) = {}
              /\ Len(hr.attempt.signatures) < minSigs => ~hr.attempt.isValid
        /\ hr.verdict = "invalid" =>
              /\ hr.pc = "done"
              /\ hr.errorEvent
              /\ hr.call = NoCall

C10_Witness ==
    \E h \in Running :
        /\ handlers[h].stage = "quorum"
        /\ handlers[h].attempt.noSignature # {}
        /\ handlers[h].verdict = "invalid"
        /\ handlers[h].errorEvent
        /\ handlers[h].pc = "done"

\* C11: the compensating release issued on timeout for a record that is
\* locked in the escrow and was never verified is approved by the escrow
\* application, and pays the recorded amount to the original sender.
C11_LockedFundsRecoverable ==
    \A id \in Ids :
        compResult[id] # "none" =>
            /\ compResult[id] = "approved"
            /\ \E sender \in Lockers :
                   /\ escrowLocal[sender][id].present
                   /\ [id |-> id, receiver |-> sender,
                       amount |-> escrowLocal[sender][id].amount] \in escrowPaid

\* C12: when the handler of the only event for an id has ended with the
\* verification invalid (timeout, proof check or quorum) or with the mint /
\* release submission failed, the stored status of the id is FAILED.
C12_FailureMarksFailed ==
    \A h \in Running :
        LET hr == handlers[h] IN
        (/\ hr.kind \in {"lock", "burn"} /\ Sole(h)
         /\ hr.pc = "done" /\ hr.tpc # "release"
         /\ (hr.verdict = "invalid" \/ hr.result = "failed"))
            => /\ transactions[hr.event.id].present
               /\ transactions[hr.event.id].status = FAILED

\* C13: a handler whose verification was invalid, whose mint / release
\* submission failed or whose compensating release failed has emitted an
\* ERROR event for its transaction.
C13_FailuresEmitError ==
    \A h \in Running :
        LET hr == handlers[h] IN
        (hr.verdict = "invalid" \/ hr.result = "failed" \/ hr.tresult = "failed")
            => hr.errorEvent

\* The amount of a call is missing, zero, negative or not a number; or
\* infinite.
BadAmount(amount) ==
    LET bn == ToBigNumber(amount) IN
    IsNaN(bn) \/ (bn.k = "fin" /\ (bn.m = 0 \/ bn.s < 0))
InfiniteAmount(amount) == ToBigNumber(amount).k = "inf"

\* The metadata of a call is given and validateCarbonMetadata rejects it.
BadMetadata(metadata) ==
    metadata.present /\ ValidateCarbonMetadata(metadata) # "null"

\* C14: a call of bridgeToTargetChain with an empty or malformed sender or
\* receiver, a missing, zero, negative or non-numeric amount, or invalid
\* metadata returns success = false and status FAILED, does not call the
\* source adapter's lock, emits no Lock event and leaves the store as it was.
C14_InvalidInputRejected ==
    [][(/\ apiLast'.op = "bridgeToTargetChain"
        /\ \/ FormatAddress(apiLast'.sender, ALGORAND) = "throw"
           \/ FormatAddress(apiLast'.receiver, ETHEREUM) = "throw"
           \/ BadAmount(apiLast'.amount)
           \/ BadMetadata(apiLast'.metadata))
          => /\ ~apiLast'.success
             /\ apiLast'.status = FAILED
             /\ ~apiLast'.adapterCalled
             /\ ~apiLast'.event
             /\ transactions' = transactions]_vars

\* C15: every stored transaction created by bridgeToTargetChain or
\* bridgeToAlgorand has a strictly positive amount, and a call with a zero,
\* negative, infinite or non-numeric amount emits no Lock or Burn event.
C15_StoredAmountPositive ==
    /\ \A id \in Ids : transactions[id].present => transactions[id].amount > 0
    /\ (BadAmount(apiLast.amount) \/ InfiniteAmount(apiLast.amount))
           => ~apiLast.event

\* C16: a configuration lacking the escrow application id, the carbon asset
\* id, the bridge contract address or the token contract address, or listing
\* fewer verifiers than minVerifierSignatures, is rejected; so every
\* constructed bridge has a defined numeric minVerifierSignatures that is at
\* most the number of verifiers.
C16_ConstructedConfigSound ==
    cfg.state \in {"built", "in use"} =>
        /\ ~FalsyOrAbsent(cfg.config.algorand.a)
        /\ ~FalsyOrAbsent(cfg.config.algorand.b)
        /\ ~FalsyOrAbsent(cfg.config.targetChain.a)
        /\ ~FalsyOrAbsent(cfg.config.targetChain.b)
        /\ cfg.config.minVerifierSignatures.t = "number"
        /\ cfg.config.minVerifierSignatures.k = "fin"
        /\ ToNumber(cfg.config.minVerifierSignatures) <= cfg.config.verifiers.m

\* C17: getTransactionStatus(id) returns the stored status, and asks no
\* chain, when id is in the store; otherwise it returns the Algorand adapter's
\* status unless that is FAILED, and then the target adapter's status; it
\* never modifies the store.
C17_StatusLookup ==
    [][statusLast' # statusLast =>
        LET q == statusLast' IN
        /\ transactions' = transactions
        /\ q.stored = transactions[q.bridgeId].present
        /\ q.stored =>
               /\ q.result = transactions[q.bridgeId].status
               /\ ~q.algorandQueried /\ ~q.targetQueried
        /\ ~q.stored =>
               q.result = IF q.algorandStatus # FAILED THEN q.algorandStatus
                          ELSE q.targetStatus]_vars

C17_Witness_FallsBackToTarget ==
    /\ statusLast.op = "getTransactionStatus"
    /\ ~statusLast.stored
    /\ statusLast.algorandStatus = FAILED
    /\ statusLast.targetQueried
    /\ statusLast.result = MINTED
    /\ \E id \in Ids : transactions[id].present

\* The invocations of handler h for event e through channel ch
Received(h, e, ch) ==
    {i \in 1..Len(deliveries) :
        deliveries[i].h = h /\ deliveries[i].e = e /\ deliveries[i].ch = ch}
AllHandlers == BusHandlers \cup {"handleLockEvent", "handleTimeoutEvent"}

\* C18: every emitted event is delivered exactly once to every handler
\* registered for its type when it is emitted and exactly once to every
\* handler registered for "any"; a handler that receives two events receives
\* them in the order of their emission.
C18_DeliveredOnceInOrder ==
    /\ \A e \in 1..Len(busEvents) : \A h \in AllHandlers :
          /\ h \in Range(busEvents[e].regType) =>
                 Cardinality(Received(h, e, busEvents[e].type)) = 1
          /\ h \in Range(busEvents[e].regAny) =>
                 Cardinality(Received(h, e, "any")) = 1
    /\ \A i, j \in 1..Len(deliveries) :
          (i < j /\ deliveries[i].h = deliveries[j].h) =>
              deliveries[i].e <= deliveries[j].e

\* C19: the bus keeps no queue of past events: a handler receives an event
\* only if it was registered when the event was emitted; after off(type,
\* handler) the handler receives no later event through that channel; every
\* event reaches each handler at most once.
C19_NoReplayNoDeliveryAfterOff ==
    /\ \A i \in 1..Len(deliveries) :
          /\ deliveries[i].h \in
                 Range(IF deliveries[i].ch = "any"
                       THEN busEvents[deliveries[i].e].regAny
                       ELSE busEvents[deliveries[i].e].regType)
          /\ ~deliveries[i].afterOff
    /\ \A i, j \in 1..Len(deliveries) :
          (deliveries[i].h = deliveries[j].h /\ deliveries[i].e = deliveries[j].e)
              => i = j

\* C20: for timestamp > 0 and timeoutMs > 0, isTransactionTimedOut is true
\* if and only if now - timestamp > timeoutMs, except that a timestamp more
\* than 300000 ms later than now is never reported as timed out.
C20_TimedOutIffElapsed ==
    LET c == timedOutCall IN
    (c.result \notin {"none", "pending"} /\ c.timestamp > 0 /\ c.timeoutMs > 0)
        => /\ c.result \in {"yes", "no"}
           /\ c.result = "yes" <=>
                  /\ c.now - c.timestamp > c.timeoutMs
                  /\ ~(c.timestamp > c.now + 300000)

C20_Witness_JustElapsed ==
    /\ timedOutCall.result = "yes"
    /\ timedOutCall.timestamp > 0
    /\ timedOutCall.now - timedOutCall.timestamp = timedOutCall.timeoutMs + 1

\* The amount is a whole number of base units on the side with fewer
\* decimals
Whole(d) == Normal(d).e >= 0
WithinScale(c) ==
    IF c.to < c.from
    THEN Whole(Dec("fin", c.amount.s, c.amount.m, c.amount.e - (c.from - c.to)))
    ELSE Whole(c.amount)

\* C21: for finite amounts and non-negative decimals, converting an amount
\* from one precision to another and back returns the amount, as long as the
\* amount is expressible on the side with fewer decimals; a negative decimals
\* argument is rejected with an error.
C21_ConvertRoundTrip ==
    LET c == convertCall IN
    /\ (c.stage \in {"there", "back"} /\ (c.from < 0 \/ c.to < 0))
           => c.there = DecThrown
    /\ (c.stage \in {"there", "back"} /\ c.amount.k = "fin"
            /\ c.from >= 0 /\ c.to >= 0)
           => c.there.k = "fin"
    /\ (c.stage = "back" /\ c.amount.k = "fin" /\ WithinScale(c))
           => c.back = Normal(c.amount)

C21_Witness_DownAndBack ==
    /\ convertCall.stage = "back"
    /\ convertCall.from = 18 /\ convertCall.to = 6
    /\ convertCall.amount = Dec("fin", 1, 5, 12)
    /\ convertCall.there = Dec("fin", 1, 5, 0)
    /\ convertCall.back = Dec("fin", 1, 5, 12)

\* C22: the bridge id is generated once per transfer: the id returned by
\* bridgeToTargetChain / bridgeToAlgorand is the id of the transaction in the
\* emitted Lock / Burn event and the key it is stored under; a stored
\* transaction's id is its key; every mint / release call carries the id of
\* the event being handled; no step changes the id of a stored transaction.
C22_IdState ==
    /\ (apiLast.success /\ apiLast.event) =>
           /\ apiLast.bridgeId \in Ids
           /\ transactions[apiLast.bridgeId].present
           /\ transactions[apiLast.bridgeId].id = apiLast.bridgeId
           /\ \E h \in Running : handlers[h].event.id = apiLast.bridgeId
    /\ \A k \in Ids : transactions[k].present => transactions[k].id = k
    /\ \A h \in Running :
           /\ handlers[h].tx.id = handlers[h].event.id
           /\ handlers[h].call # NoCall =>
                  handlers[h].call.id = handlers[h].event.id
           /\ handlers[h].tcall # NoCall =>
                  handlers[h].tcall.id = handlers[h].event.id
C23_Retrievable ==
    \A k \in Ids : transactions[k].present =>
        /\ GetTransaction(k) = transactions[k]
        /\ GetTransaction(k).id = k
        /\ transactions[k] \in ListTransactions
C23_NeverRemoved ==
    /\ []C23_Retrievable
    /\ [][\A k \in Ids : transactions[k].present => transactions'[k].present]_vars

C23_Witness_TerminalKept ==
    \E k \in Ids, h \in Running :
        /\ k \in timeoutDone
        /\ transactions[k].status = FAILED
        /\ GetTransaction(k).status = FAILED
        /\ handlers[h].event.id # k
        /\ handlers[h].pc = "done"
        /\ transactions[handlers[h].event.id].status = MINTED

RecordStatus(id) ==
    IF escrowGlobal[id].present THEN escrowGlobal[id].status
    ELSE IF \E a \in Lockers : escrowLocal[a][id].present
         THEN LET a == CHOOSE a \in Lockers : escrowLocal[a][id].present
              IN escrowLocal[a][id].status
         ELSE ""

\* C27: once an embedded verifier has attested a locked bridge id and
\* min_verifier_signatures is one, the record of the id is "verified" (or
\* already "released").
C27_VerifiedAtQuorum ==
    ( /\ escrowLast.op = "verify"
      /\ escrowLast.caller \in VerifierAccounts
      /\ \E a \in Lockers : escrowLocal[a][escrowLast.id].present
      /\ minSigs = 1 )
    => RecordStatus(escrowLast.id) \in {"verified", "released"}

\* The Lock and Burn handlers whose transaction was older than the
\* verification timeout when verifyTransaction was called.
TimedOutAtCall ==
    {h \in Running : /\ handlers[h].kind \in {"lock", "burn"}
                     /\ handlers[h].event.timestamp > 0
                     /\ handlers[h].at - handlers[h].event.timestamp
                            > VerificationTimeoutMs}

\* C28: a verifyTransaction call on a transaction older than the timeout
\* window emits TIMEOUT, never starts the proof check or the signature
\* requests, emits no VERIFICATION event and returns invalid with no
\* signatures.
C28_TimeoutShortCircuits ==
    \A h \in TimedOutAtCall :
        LET hr == handlers[h] IN
        /\ hr.timeoutEvent
        /\ hr.stage = "timeout"
        /\ hr.pc = "done"
        /\ ~hr.verificationEvent
        /\ hr.verdict = "invalid"
        /\ hr.attempt = NoAttempt
        /\ hr.call = NoCall

\* A timed-out lock with a proof to check was delivered, and its handler has
\* finished together with the timeout handling it started.
C28_Witness_TimedOutWithProof ==
    \E h \in TimedOutAtCall :
        /\ handlers[h].kind = "lock"
        /\ handlers[h].event.hasSourceTx
        /\ handlers[h].timeoutEvent
        /\ handlers[h].tpc = "done"

\* The status changes of the lifecycle state machine.
Lifecycle ==
    {<<PENDING, LOCKED>>, <<PENDING, BURNED>>,
     <<LOCKED, MINTED>>, <<LOCKED, RELEASED>>, <<LOCKED, FAILED>>,
     <<BURNED, MINTED>>, <<BURNED, RELEASED>>, <<BURNED, FAILED>>}

\* C29: whenever the stored status of a transaction changes, the old and
\* the new status are a step of the lifecycle state machine.
C29_StatusFollowsLifecycle ==
    [][ \A id \in Ids :
            ( /\ transactions[id].present
              /\ transactions'[id].present
              /\ transactions'[id].status # transactions[id].status )
            => <<transactions[id].status, transactions'[id].status>>
                   \in Lifecycle ]_vars

\* C30: a compensating release is issued on TIMEOUT only for a transaction
\* whose source chain is Algorand and whose stored status is LOCKED at that
\* moment, and it releases the stored amount to the stored sender; the
\* transaction is marked FAILED only after the release has returned.
C30_CompensatingReleaseOnlyWhenStoredLocked ==
    [][ \A id \in Ids :
            compCalls'[id] # compCalls[id] =>
                LET stored == transactions'[id]
                    hr     == handlers'[Len(handlers')]
                IN
                /\ stored.present
                /\ stored.sourceChain = ALGORAND
                /\ stored.status = LOCKED
                /\ hr.tpc = "release"
                /\ hr.tx.status # FAILED
                /\ hr.tcall = [op |-> "release", id |-> id,
                               receiver |-> stored.sender,
                               amount |-> stored.amount] ]_vars

\* C31: a handler that resumes from an await and writes the store entry of
\* its id finds there the status it started from: no other handler has
\* written the entry in between.
C31_SerializedPerId ==
    [][ \A h \in Running :
            LET hr == handlers[h]
                id == hr.tx.id
            IN
            ( \/ /\ hr.pc \in {"mint", "release"}
                 /\ handlers'[h].pc = "done"
                 /\ handlers'[h].result = "ok"
              \/ /\ hr.tpc = "release"
                 /\ handlers'[h].tpc = "done" )
            => ( transactions[id].present
                   => transactions[id].status = hr.tx.status ) ]_vars

\* C32: the quorum decision is taken only when every verifier's request has
\* settled, and every signature a verifier returned within its own timeout
\* is in the returned signature list.
C32_DecidedAfterAllSettled ==
    vresult.decided =>
        /\ \A v \in Verifiers : vresp[v] # "pending"
        /\ \A v \in Verifiers :
               vresp[v] = "sig" => v \in Range(vresult.signatures)

\* C33: an entry appears in the store only in the delivery of a Lock or
\* Burn event for its id, and the delivery of a Lock or Burn event for an
\* id that is already stored leaves the entry as it is.
C33_CreatedOnce ==
    [][ \A id \in Ids :
            /\ (~transactions[id].present /\ transactions'[id].present)
                   => /\ Len(handlers') = Len(handlers) + 1
                      /\ handlers'[Len(handlers')].kind \in {"lock", "burn"}
                      /\ handlers'[Len(handlers')].event.id = id
            /\ ( /\ transactions[id].present
                 /\ Len(handlers') = Len(handlers) + 1
                 /\ handlers'[Len(handlers')].kind \in {"lock", "burn"}
                 /\ handlers'[Len(handlers')].event.id = id )
                   => transactions'[id] = transactions[id] ]_vars

\* C34: a step that changes the store entry of an id is a step of a handler
\* of that id and leaves the entry of every other id unchanged; and every
\* entry is stored under the id of the transaction it holds.
C34_IdsIndependent ==
    /\ [][ \A a \in Ids :
               transactions'[a] # transactions[a] =>
                   /\ \A b \in Ids \ {a} : transactions'[b] = transactions[b]
                   /\ \E h \in 1..Len(handlers') :
                          /\ handlers'[h].event.id = a
                          /\ \/ h > Len(handlers)
                             \/ handlers'[h] # handlers[h] ]_vars
    /\ [](\A id \in Ids : transactions[id].present => transactions[id].id = id)

\* Two ids have gone different ways: one is minted, the other failed.
C34_Witness_TwoIds ==
    \E a, b \in Ids :
        /\ a # b
        /\ transactions[a].present /\ transactions[a].status = MINTED
        /\ transactions[b].present /\ transactions[b].status = FAILED

\* C35: the origin-chain proof check passes only for a source transaction
\* that is referenced, found and confirmed, is an asset transfer of the
\* configured asset to the escrow or a call of the escrow application, and
\* carries the expected amount and, when it embeds them, the transaction's
\* receiver and target chain.
C35_ProofCheckSound ==
    proofCall.result = "pass" =>
        /\ proofCall.hasSourceTx
        /\ proofCall.found
        /\ proofCall.confirmedRound \notin {"undefined", "0"}
        /\ proofCall.txType \in {"axfer", "appl"}
        /\ proofCall.txType = "axfer" =>
               /\ proofCall.assetId = proofCall.tokenId
               /\ proofCall.receiver = proofCall.escrowAddress
               /\ proofCall.amount = ExpectedAmount(proofCall)
               /\ proofCall.note \in {"none", "match"}
        /\ proofCall.txType = "appl" =>
               /\ proofCall.appId = proofCall.escrowAppId
               /\ proofCall.argAmountMatches

\* C40: with the asset and the escrow address configured, a found and
\* confirmed transaction of the lock group that lockCarbonCredits builds,
\* carrying the expected amount, passes the proof check.
C40_LockGroupPasses ==
    ( /\ proofCall.result \in {"pass", "fail"}
      /\ proofCall.hasSourceTx /\ proofCall.found
      /\ proofCall.confirmedRound \notin {"undefined", "0"}
      /\ proofCall.tokenId = proofCall.carbonAssetId
      /\ proofCall.escrowAddress = EscrowAddress
      /\ \/ [proofCall EXCEPT !.result = "pending"]
               = LockGroupAxfer([proofCall EXCEPT !.result = "pending"])
         \/ [proofCall EXCEPT !.result = "pending"]
               = LockGroupAppl([proofCall EXCEPT !.result = "pending"]) )
    => proofCall.result = "pass"

\* C36: a handler whose proof check failed has asked no verifier, emitted
\* no VERIFICATION event, got an invalid result without signatures and has
\* ended; a VERIFICATION event is emitted only from the quorum stage, which
\* follows a passed proof check; and a mint or release call for an id was
\* preceded by a VERIFICATION event with isValid = true for that id.
C36_ProofBeforeQuorumBeforeMint ==
    /\ \A h \in Running :
           LET hr == handlers[h] IN
           /\ hr.stage \in {"proof", "noproof"} =>
                  /\ hr.pc = "done"
                  /\ ~hr.verificationEvent
                  /\ hr.verdict = "invalid"
                  /\ hr.attempt = NoAttempt
                  /\ hr.call = NoCall
           /\ hr.verificationEvent => hr.stage = "quorum"
           /\ hr.call # NoCall =>
                  /\ hr.verificationEvent
                  /\ hr.attempt.evIsValid
    /\ \A id \in Ids :
           mintCalls[id] + relCalls[id] > 0 =>
               \E h \in Running : /\ handlers[h].event.id = id
                                   /\ handlers[h].verificationEvent
                                   /\ handlers[h].attempt.evIsValid

\* One Lock event failed its proof check and another was verified and led
\* to a mint call.
C36_Witness_FailedAndMinted ==
    \E g, h \in Running :
        /\ handlers[g].stage = "proof" /\ handlers[g].event.hasSourceTx
        /\ handlers[g].pc = "done"
        /\ handlers[h].call.op = "mint"
        /\ handlers[h].verificationEvent

\* C37: the three places compute the same payload for a transaction;
\* transactions with equal six fields get the same payload, and
\* transactions that differ only in nonce get different payloads.
C37_PayloadDeterministic ==
    hashCall.stage = "done" =>
        LET a == hashCall.a
            b == hashCall.b
        IN
        /\ hashCall.pa.collect = hashCall.pa.sign
        /\ hashCall.pa.sign = hashCall.pa.verify
        /\ hashCall.pb.collect = hashCall.pb.sign
        /\ hashCall.pb.sign = hashCall.pb.verify
        /\ a = b => hashCall.pa = hashCall.pb
        /\ (a.nonce # b.nonce /\ [a EXCEPT !.nonce = b.nonce] = b)
               => hashCall.pa.collect # hashCall.pb.collect

\* The payloads of two transactions that differ only in nonce were computed.
C37_Witness_NonceOnly ==
    /\ hashCall.stage = "done"
    /\ hashCall.a.nonce = 3 /\ hashCall.b.nonce = 23
    /\ [hashCall.a EXCEPT !.nonce = 23] = hashCall.b
    /\ hashCall.pa.sign # hashCall.pb.verify

\* C38: two transactions that differ in at least one of the six fields
\* have different hashed byte sequences.
C38_HashInputInjective ==
    (hashCall.stage = "done" /\ hashCall.a # hashCall.b)
        => hashCall.pa.collect # hashCall.pb.collect

\* C39: when bridgeToTargetChain or bridgeToAlgorand returns success with
\* bridge id b, getTransaction(b) returns that transaction: the step of the
\* call itself (the adapter emits the Lock / Burn event and the handler runs
\* up to its first await before the adapter returns) leaves the emitted
\* transaction stored under b with status PENDING, and the call returns
\* PENDING with no mint or release call made for b, whatever verification
\* says about it.
C39_ReturnedIsStored ==
    apiLast.success =>
        /\ apiLast.bridgeId \in Ids
        /\ GetTransaction(apiLast.bridgeId).present
        /\ GetTransaction(apiLast.bridgeId).id = apiLast.bridgeId
C39_StoredBeforeReturn ==
    /\ []C39_ReturnedIsStored
    /\ [][(apiLast' # apiLast /\ apiLast'.success) =>
              LET n == Len(handlers') IN
              /\ n = Len(handlers) + 1
              /\ handlers'[n].event.id = apiLast'.bridgeId
              /\ transactions'[apiLast'.bridgeId] = handlers'[n].event
              /\ transactions'[apiLast'.bridgeId].status = PENDING
              /\ apiLast'.status = PENDING
              /\ handlers'[n].call = NoCall
              /\ handlers'[n].result = "none"]_vars

C39_Witness_BothDirectionsStored ==
    \E h \in Running :
        /\ apiLast.success /\ apiLast.op = "bridgeToAlgorand"
        /\ GetTransaction(apiLast.bridgeId).status = PENDING
        /\ GetTransaction(apiLast.bridgeId).sourceChain = ETHEREUM
        /\ handlers[h].kind = "lock"
        /\ handlers[h].event.id # apiLast.bridgeId
        /\ handlers[h].event.status = PENDING
        /\ GetTransaction(handlers[h].event.id).sourceChain = ALGORAND

====
